---- MODULE Spec2Model ----
(***************************************************************************)
(* RPC session protocol of yuzuthread: the host side built by initWorker   *)
(* (src/src/init-worker.ts) and the context side built by                  *)
(* setupWorkerRuntime (src/src/worker.ts), joined by the two message       *)
(* directions of a node:worker_threads Worker and by its 'error' and       *)
(* 'exit' events.                                                          *)
(***************************************************************************)
EXTENDS Integers, Sequences, FiniteSets, TLC

\* ------------------------------------------------------------------ bounds
MaxCalls == 2        \* forward calls the caller issues on one session
MaxFinalize == 2     \* finalize() invocations by the caller

\* ------------------------------------------------------------- vocabulary
Uncloneable == 0     \* an argument postMessage cannot clone (DataCloneError)

\* variant: an undecorated method is registered as remotely callable too
WorkerMethods_withPlain ==
  {"quickTask", "longTask", "throwError", "exit", "directExit",
   "callMainAdd", "callMainFail", "setValue", "increment", "incrementCounter",
   "plainMethod"}
WorkerMethods ==
  {"quickTask", "longTask", "throwError", "exit", "directExit",
   "callMainAdd", "callMainFail", "setValue", "increment", "incrementCounter"}

\* methods marked @WorkerCallback
\* variant: the callback registration is empty
WorkerCallbacks_none == {}
WorkerCallbacks == {"onMainAdd", "onMainFail"}

\* the callback a remote method body calls on its own instance
CallbackMethods == {"callMainAdd", "callMainFail"}
CallbackOf(method) ==
  IF method = "callMainAdd" THEN "onMainAdd" ELSE "onMainFail"

\* methods marked @WorkerFinalize: the context ends once one has completed
FinalizeMethods == {"directExit"}

\* the (method, argument) pairs a caller issues
CallInputs ==
  { <<"longTask", 1>>, <<"quickTask", 1>>, <<"quickTask", Uncloneable>>,
    <<"throwError", 1>>, <<"exit", 1>> }

ExitCodeOfExitMethod == 42
ExitCodeOfTerminate == 1
ExitCodeOfProcessExit == 0

NoCode == -1

\* An error value: obj says whether it is an object with a 'message'
\* property; name and stack are "" when absent; code is the exit code
\* interpolated into the message, NoCode when there is none.
Err(obj, message, name, stack) ==
  [obj |-> obj, message |-> message, name |-> name, stack |-> stack,
   code |-> NoCode]
NoError == Err(FALSE, "", "", "")
NewError(message) == Err(TRUE, message, "Error", "host-stack")

\* values a context can throw
RaisedValues ==
  { Err(TRUE, "boom", "TypeError", "worker-stack"),
    Err(TRUE, "", "Error", "worker-stack"),
    Err(FALSE, "oops", "", "") }

\* variant: the fallback text always, the raised value's details dropped
toError_fallbackOnly(error, fallback) == NewError(fallback)

toError(error, fallback) ==
  IF error.obj
    THEN [obj |-> TRUE,
          message |-> IF error.message # "" THEN error.message ELSE fallback,
          name |-> IF error.name # "" THEN error.name ELSE "Error",
          stack |-> IF error.stack # "" THEN error.stack ELSE "host-stack",
          code |-> NoCode]
    ELSE NewError(fallback)

\* variant: only the message is serialized
serializeError_messageOnly(error) == Err(TRUE, error.message, "", "")

serializeError(error) ==
  IF error.obj
    THEN Err(TRUE, error.message, error.name, error.stack)
    ELSE Err(TRUE, error.message, "", "")

FinalizedError == NewError("Worker has been finalized")
\* variant: the exit code is left out of the error
ExitedError_noCode(code) == NewError("Worker exited (code)")
ExitedError(code) == [NewError("Worker exited (code)") EXCEPT !.code = code]
ExitedBeforeReadyError(code) ==
  [NewError("Worker exited before ready (code)") EXCEPT !.code = code]
NotDecoratedError == Err(TRUE, "Method is not decorated with @WorkerMethod()", "", "")
TestError == Err(TRUE, "Test error", "Error", "worker-stack")
\* what the host-side handler onMainFail throws
CallbackError == Err(TRUE, "callback failed", "TypeError", "host-stack")
NotCallbackError ==
  Err(TRUE, "Method is not decorated with @WorkerCallback()", "", "")
DataCloneError == Err(TRUE, "could not be cloned", "DataCloneError", "host-stack")

\* what a remote method body returns
QuickResult == 10
MethodResult(method, arg) ==
  CASE method = "quickTask" -> QuickResult
    [] method = "directExit" -> arg * 10
    [] OTHER -> arg

\* ---------------------------------------------------------------- messages
Msg(type, id, method, arg, ok, result, error) ==
  [type |-> type, id |-> id, method |-> method, arg |-> arg, ok |-> ok,
   result |-> result, error |-> error]
InvokeMsg(id, method, arg) == Msg("invoke", id, method, arg, TRUE, 0, NoError)
FinalizeMsg == Msg("finalize", 0, "", 0, TRUE, 0, NoError)
ReadyMsg == Msg("ready", 0, "", 0, TRUE, 0, NoError)
InitErrorMsg(error) == Msg("init-error", 0, "", 0, FALSE, 0, error)
FinalizedMsg == Msg("finalized", 0, "", 0, TRUE, 0, NoError)
ResultOk(id, result) == Msg("result", id, "", 0, TRUE, result, NoError)
ResultFail(id, error) == Msg("result", id, "", 0, FALSE, 0, error)
CallbackInvokeMsg(id, method, arg) ==
  Msg("callback-invoke", id, method, arg, TRUE, 0, NoError)
CallbackResultOk(id, result) ==
  Msg("callback-result", id, "", 0, TRUE, result, NoError)
CallbackResultFail(id, error) ==
  Msg("callback-result", id, "", 0, FALSE, 0, error)

\* ------------------------------------------------------------------- state
VARIABLES
  status,        \* WorkerStatus reported by workerStatus()
  finalized,     \* init-worker.ts: let finalized
  ready,         \* init-worker.ts: let ready
  nextCallId,    \* init-worker.ts: let nextCallId
  pending,       \* init-worker.ts: pending Map, id -> [method, call]
  readyPromise,  \* "pending" | "resolved" | "rejected"
  readyError,    \* rejection reason of readyPromise
  calls,         \* the futures returned by callWorkerMethod, in issue order
  posted,        \* ids for which postMessage(invoke) was called
  finalizeCalls, \* how many times the caller invoked finalize()
  terminating,   \* worker.terminate() has been requested
  h2w,           \* messages host -> context, in send order
  w2h,           \* messages context -> host, in send order
  wState,        \* life of the context
  wRaised,       \* uncaught value carried by the undelivered 'error' event
  wExitCode,     \* exit code carried by the undelivered 'exit' event
  wActive,       \* invoke messages whose method body is suspended
  wStarted,      \* ids of the invokes the context began to handle, in order,
                 \* kept until the 'exit' event is delivered
  hostCount,     \* the `count` field of the host's local instance
  cbTasks,       \* callback-invoke messages the host is still serving
  pendingCallbacks, \* worker.ts: pendingCallbacks Map, id -> suspended invoke
  nextCallbackId,   \* worker.ts: let nextCallbackId
  workerCount,   \* the `count` field of the context's instance
  eventHandlers, \* init-worker.ts: eventHandlers, event -> handler keys
  notified,      \* <<event, handler key>> of every observer invoked, in order
  transport,     \* the value a codec run is working on
  shared,        \* the buffers behind the instances of a struct-typed unit
  scan,          \* the value a shared-memory operation is working on
  run            \* runInWorker: its position and the outcome of the callback

vars == <<status, finalized, ready, nextCallId, pending, readyPromise,
          readyError, calls, posted, finalizeCalls, terminating, h2w, w2h,
          wState, wRaised, wExitCode, wActive, wStarted,
          hostCount, cbTasks, pendingCallbacks, nextCallbackId, workerCount,
          eventHandlers, notified, transport, shared, scan, run>>

hostVars == <<status, finalized, ready, nextCallId, pending, readyPromise,
              readyError, calls, posted, finalizeCalls, terminating>>
workerVars == <<wState, wRaised, wExitCode, wActive, wStarted>>
cbVars == <<hostCount, cbTasks, pendingCallbacks, nextCallbackId, workerCount>>
obsVars == <<eventHandlers, notified>>

Outcome(kind, value, error) == [kind |-> kind, value |-> value, error |-> error]
Unsettled == Outcome("none", 0, NoError)
Resolved(value) == Outcome("ok", value, NoError)
Rejected(error) == Outcome("err", 0, error)

\* pc: "encoding" (awaiting encodeMethodArgs / readyPromise), "sent" (in the
\* pending table), "decoding" (awaiting decodeMethodReturn), "settled"
\* wire is the result value of the matched message while it is being decoded.
\* Two fields only record history: afterFinalize (finalize() had been called
\* when the call was issued) and sentIn (the status when its invoke was
\* posted, "" while none was).
Call(method, arg, pc, id, outcome) ==
  [method |-> method, arg |-> arg, pc |-> pc, id |-> id, wire |-> 0,
   outcome |-> outcome, afterFinalize |-> FALSE, sentIn |-> ""]

EmptyMap == [i \in {} |-> 0]
MapSet(m, k, v) == [i \in DOMAIN m \cup {k} |-> IF i = k THEN v ELSE m[i]]
MapDelete(m, k) == [i \in DOMAIN m \ {k} |-> m[i]]

\* lifecycle events with observers, and the observers of a class without any
Events == {"error", "exit"}
NoHandlers == [e \in Events |-> <<>>]

\* no codec run is under way
NoTransport == [pc |-> "idle"]

\* a unit that is no typed-struct class: no buffer is allocated for it
NoStore == ""
NoShared == [stores |-> <<>>, caller |-> NoStore, host |-> NoStore,
             payload |-> NoStore, context |-> NoStore, writes |-> <<>>]
\* no shared-memory operation is under way, and no runInWorker
NoScan == [pc |-> "idle"]
NoRun == [pc |-> "idle"]
NoAux == shared = NoShared /\ scan = NoScan /\ run = NoRun

InitSession ==
  /\ status = "Initializing"
  /\ finalized = FALSE
  /\ ready = FALSE
  /\ nextCallId = 1
  /\ pending = EmptyMap
  /\ readyPromise = "pending"
  /\ readyError = NoError
  /\ calls = <<>>
  /\ posted = {}
  /\ finalizeCalls = 0
  /\ terminating = FALSE
  /\ h2w = <<>>
  /\ w2h = <<>>
  /\ wState = "starting"
  /\ wRaised = NoError
  /\ wExitCode = NoCode
  /\ wActive = {}
  /\ wStarted = <<>>
  /\ hostCount = 0
  /\ cbTasks = {}
  /\ pendingCallbacks = EmptyMap
  /\ nextCallbackId = 1
  /\ workerCount = 0
  /\ notified = <<>>

Init ==
  /\ InitSession
  /\ eventHandlers = NoHandlers
  /\ transport = NoTransport
  /\ NoAux


\* ------------------------------------------------------------ host helpers
\* worker.postMessage: a message posted to a stopped context is discarded
Stopped == wState \in {"errorPending", "exitPending", "exited"}
postMessage(message) == IF Stopped THEN h2w ELSE Append(h2w, message)

PendingCalls(p) == {p[id].call : id \in DOMAIN p}

\* rejectAll: every call found in the pending table is rejected with error
rejectAll(cs, p, error) ==
  [i \in DOMAIN cs |->
     IF i \in PendingCalls(p)
       THEN [cs[i] EXCEPT !.pc = "settled", !.outcome = Rejected(error)]
       ELSE cs[i]]

\* pending.get(id): the entry recorded under id, if any
HasCallback(p, id) == id \in DOMAIN p
\* variant: the oldest pending entry, whatever id the message carries
callbackFor_oldest(p, id) ==
  p[CHOOSE k \in DOMAIN p : \A other \in DOMAIN p : k <= other]
callbackFor(p, id) == p[id]

\* rejectReady / resolveReady settle readyPromise once
rejectReady(error) ==
  IF readyPromise = "pending"
    THEN readyPromise' = "rejected" /\ readyError' = error
    ELSE UNCHANGED <<readyPromise, readyError>>

\* initWorker has returned the instance (await readyPromise, then return)
InstanceReturned == readyPromise = "resolved"

\* nextCallId += 1
\* variant: the counter is not advanced
NextId_stuck(id) == id
NextId(id) == id + 1

\* ------------------------------------------------------ caller operations
\* variant: callWorkerMethod without the check of the finalized flag
callWorkerMethod_unchecked(method, arg) ==
  /\ InstanceReturned
  /\ Len(calls) < MaxCalls
  /\ calls' = Append(calls,
       [Call(method, arg, "encoding", 0, Unsettled)
          EXCEPT !.afterFinalize = finalized])
  /\ UNCHANGED <<status, finalized, ready, nextCallId, pending, readyPromise,
                 readyError, posted, finalizeCalls, terminating, h2w, w2h>>
  /\ UNCHANGED workerVars
  /\ UNCHANGED <<cbVars, obsVars, transport, shared, scan, run>>

\* callWorkerMethod up to the first await, for a caller that issues at most
\* `limit` calls
callWorkerMethodUpTo(limit, method, arg) ==
  /\ InstanceReturned
  /\ Len(calls) < limit
  /\ calls' = Append(calls,
       IF finalized
         THEN \* rejected before name and arguments are looked at
              [Call("", 0, "settled", 0, Rejected(FinalizedError))
                 EXCEPT !.afterFinalize = TRUE]
         ELSE Call(method, arg, "encoding", 0, Unsettled))
  /\ UNCHANGED <<status, finalized, ready, nextCallId, pending, readyPromise,
                 readyError, posted, finalizeCalls, terminating, h2w, w2h>>
  /\ UNCHANGED workerVars
  /\ UNCHANGED <<cbVars, obsVars, transport, shared, scan, run>>

callWorkerMethod(method, arg) == callWorkerMethodUpTo(MaxCalls, method, arg)

\* callWorkerMethod after encodeMethodArgs: the readyPromise.then callback
sendInvoke(i) ==
  /\ calls[i].pc = "encoding"
  /\ readyPromise = "resolved"
  /\ LET id == nextCallId IN
       /\ nextCallId' = NextId(nextCallId)
       /\ IF calls[i].arg = Uncloneable
            THEN \* postMessage throws: pending.delete(id), reject
              /\ calls' = [calls EXCEPT ![i].pc = "settled", ![i].id = id,
                   ![i].outcome = Rejected(toError(DataCloneError,
                                     "Failed to send message to worker"))]
              /\ UNCHANGED <<pending, posted, h2w>>
            ELSE
              /\ pending' = MapSet(pending, id,
                              [method |-> calls[i].method, call |-> i])
              /\ calls' = [calls EXCEPT ![i].pc = "sent", ![i].id = id,
                                        ![i].sentIn = status]
              /\ posted' = posted \cup {id}
              /\ h2w' = postMessage(InvokeMsg(id, calls[i].method,
                                                 calls[i].arg))
  /\ UNCHANGED <<status, finalized, ready, readyPromise, readyError,
                 finalizeCalls, terminating, w2h>>
  /\ UNCHANGED workerVars
  /\ UNCHANGED <<cbVars, obsVars, transport, shared, scan, run>>

\* decodeMethodReturn(...).then(resolve)
decodeDone(i) ==
  /\ calls[i].pc = "decoding"
  /\ calls' = [calls EXCEPT ![i].pc = "settled",
                            ![i].outcome = Resolved(calls[i].wire)]
  /\ UNCHANGED <<status, finalized, ready, nextCallId, pending, readyPromise,
                 readyError, posted, finalizeCalls, terminating, h2w, w2h>>
  /\ UNCHANGED workerVars
  /\ UNCHANGED <<cbVars, obsVars, transport, shared, scan, run>>

\* instance.finalize(), up to `await worker.terminate()`
finalizeCalled ==
  /\ InstanceReturned
  /\ finalizeCalls < MaxFinalize
  /\ finalizeCalls' = finalizeCalls + 1
  /\ IF finalized
       THEN UNCHANGED <<status, finalized, pending, calls, terminating, h2w>>
       ELSE /\ finalized' = TRUE
            /\ status' = "Finalized"
            /\ calls' = rejectAll(calls, pending, FinalizedError)
            /\ pending' = EmptyMap
            /\ h2w' = postMessage(FinalizeMsg)
            /\ terminating' = TRUE
  /\ UNCHANGED <<ready, nextCallId, readyPromise, readyError, posted, w2h>>
  /\ UNCHANGED workerVars
  /\ UNCHANGED <<cbVars, obsVars, transport, shared, scan>>

\* variant: finalize leaves the pending calls to the acknowledgement
finalize_keepsPending ==
  /\ InstanceReturned
  /\ finalizeCalls < MaxFinalize
  /\ finalizeCalls' = finalizeCalls + 1
  /\ IF finalized
       THEN UNCHANGED <<status, finalized, terminating, h2w>>
       ELSE /\ finalized' = TRUE
            /\ status' = "Finalized"
            /\ h2w' = postMessage(FinalizeMsg)
            /\ terminating' = TRUE
  /\ UNCHANGED <<ready, nextCallId, pending, calls, readyPromise, readyError,
                 posted, w2h>>
  /\ UNCHANGED workerVars
  /\ UNCHANGED <<cbVars, obsVars, transport, shared, scan, run>>

\* variant: finalize without the early return of an already finalized session
finalize_repeats ==
  /\ InstanceReturned
  /\ finalizeCalls < MaxFinalize
  /\ finalizeCalls' = finalizeCalls + 1
  /\ finalized' = TRUE
  /\ status' = "Finalized"
  /\ calls' = rejectAll(calls, pending, FinalizedError)
  /\ pending' = EmptyMap
  /\ h2w' = postMessage(FinalizeMsg)
  /\ terminating' = TRUE
  /\ UNCHANGED <<ready, nextCallId, readyPromise, readyError, posted, w2h>>
  /\ UNCHANGED workerVars
  /\ UNCHANGED <<cbVars, obsVars, transport, shared, scan, run>>

finalize == finalizeCalled /\ UNCHANGED run

\* ------------------------------------------- host: worker.on('message')
\* variant: 'ready' settles readyPromise and leaves the status as it was
onReady_resolvesOnly ==
  /\ w2h # <<>> /\ Head(w2h).type = "ready"
  /\ w2h' = Tail(w2h)
  /\ ready' = TRUE
  /\ IF readyPromise = "pending"
       THEN readyPromise' = "resolved" /\ UNCHANGED readyError
       ELSE UNCHANGED <<readyPromise, readyError>>
  /\ UNCHANGED <<status, finalized, nextCallId, pending, calls, posted,
                 finalizeCalls, terminating, h2w>>
  /\ UNCHANGED workerVars
  /\ UNCHANGED <<cbVars, obsVars, transport, shared, scan, run>>

onReady ==
  /\ w2h # <<>> /\ Head(w2h).type = "ready"
  /\ w2h' = Tail(w2h)
  /\ ready' = TRUE
  /\ status' = "Ready"
  /\ IF readyPromise = "pending"
       THEN readyPromise' = "resolved" /\ UNCHANGED readyError
       ELSE UNCHANGED <<readyPromise, readyError>>
  /\ UNCHANGED <<finalized, nextCallId, pending, calls, posted, finalizeCalls,
                 terminating, h2w>>
  /\ UNCHANGED workerVars
  /\ UNCHANGED <<cbVars, obsVars, transport, shared, scan, run>>

onInitError ==
  /\ w2h # <<>> /\ Head(w2h).type = "init-error"
  /\ w2h' = Tail(w2h)
  /\ status' = "InitError"
  /\ LET error == toError(Head(w2h).error, "Failed to initialize worker") IN
       /\ rejectReady(error)
       /\ calls' = rejectAll(calls, pending, error)
       /\ pending' = EmptyMap
  /\ UNCHANGED <<finalized, ready, nextCallId, posted, finalizeCalls,
                 terminating, h2w>>
  /\ UNCHANGED workerVars
  /\ UNCHANGED <<cbVars, obsVars, transport, shared, scan, run>>

\* variant: a failed result is treated as the failure of the whole session
onResult_failureEndsSession ==
  /\ w2h # <<>> /\ Head(w2h).type = "result"
  /\ w2h' = Tail(w2h)
  /\ LET message == Head(w2h) IN
       IF ~HasCallback(pending, message.id)
         THEN UNCHANGED <<pending, calls, status>>
         ELSE LET i == callbackFor(pending, message.id).call IN
           IF message.ok
             THEN /\ pending' = MapDelete(pending, message.id)
                  /\ calls' = [calls EXCEPT ![i].pc = "decoding",
                                            ![i].wire = message.result]
                  /\ UNCHANGED status
             ELSE /\ pending' = EmptyMap
                  /\ calls' = rejectAll(calls, pending,
                       toError(message.error, "Worker method execution failed"))
                  /\ status' = "WorkerError"
  /\ UNCHANGED <<finalized, ready, nextCallId, readyPromise,
                 readyError, posted, finalizeCalls, terminating, h2w>>
  /\ UNCHANGED workerVars
  /\ UNCHANGED <<cbVars, obsVars, transport, shared, scan, run>>

\* variant: a result without pending entry still settles the call of that id
onResult_unmatched ==
  /\ w2h # <<>> /\ Head(w2h).type = "result"
  /\ w2h' = Tail(w2h)
  /\ LET message == Head(w2h)
         Settle(i) ==
           IF message.ok
             THEN [calls[i] EXCEPT !.pc = "decoding", !.wire = message.result]
             ELSE [calls[i] EXCEPT !.pc = "settled",
                    !.outcome = Rejected(toError(message.error,
                                  "Worker method execution failed"))]
     IN
       /\ pending' = IF HasCallback(pending, message.id)
                       THEN MapDelete(pending, message.id) ELSE pending
       /\ calls' = [i \in DOMAIN calls |->
                      IF calls[i].id = message.id THEN Settle(i) ELSE calls[i]]
  /\ UNCHANGED <<status, finalized, ready, nextCallId, readyPromise,
                 readyError, posted, finalizeCalls, terminating, h2w>>
  /\ UNCHANGED workerVars
  /\ UNCHANGED <<cbVars, obsVars, transport, shared, scan, run>>

onResult ==
  /\ w2h # <<>> /\ Head(w2h).type = "result"
  /\ w2h' = Tail(w2h)
  /\ LET message == Head(w2h) IN
       IF ~HasCallback(pending, message.id)
         THEN UNCHANGED <<pending, calls>>
         ELSE LET i == callbackFor(pending, message.id).call IN
           /\ pending' = MapDelete(pending, message.id)
           /\ calls' =
                IF message.ok
                  THEN [calls EXCEPT ![i].pc = "decoding",
                                     ![i].wire = message.result]
                  ELSE [calls EXCEPT ![i].pc = "settled",
                         ![i].outcome = Rejected(toError(message.error,
                                          "Worker method execution failed"))]
  /\ UNCHANGED <<status, finalized, ready, nextCallId, readyPromise,
                 readyError, posted, finalizeCalls, terminating, h2w>>
  /\ UNCHANGED workerVars
  /\ UNCHANGED <<cbVars, obsVars, transport, shared, scan, run>>

onFinalized ==
  /\ w2h # <<>> /\ Head(w2h).type = "finalized"
  /\ w2h' = Tail(w2h)
  /\ UNCHANGED hostVars
  /\ UNCHANGED h2w
  /\ UNCHANGED workerVars
  /\ UNCHANGED <<cbVars, obsVars, transport, shared, scan, run>>

\* the 'callback-invoke' branch up to the start of its promise chain
onCallbackInvoke ==
  /\ w2h # <<>> /\ Head(w2h).type = "callback-invoke"
  /\ w2h' = Tail(w2h)
  /\ LET message == Head(w2h) IN
       IF message.method \notin WorkerCallbacks
         THEN /\ h2w' = postMessage(
                         CallbackResultFail(message.id, NotCallbackError))
              /\ UNCHANGED cbTasks
         ELSE /\ cbTasks' = cbTasks \cup {message}
              /\ UNCHANGED h2w
  /\ UNCHANGED hostVars
  /\ UNCHANGED workerVars
  /\ UNCHANGED <<hostCount, pendingCallbacks, nextCallbackId, workerCount>>
  /\ UNCHANGED <<obsVars, transport, shared, scan, run>>

\* variant: what the local handler throws is not caught, nothing is answered
callbackChain_uncaught(task) ==
  /\ task \in cbTasks
  /\ cbTasks' = cbTasks \ {task}
  /\ IF task.method = "onMainAdd"
       THEN /\ hostCount' = hostCount + task.arg
            /\ h2w' = postMessage(
                        CallbackResultOk(task.id, hostCount + task.arg))
            /\ UNCHANGED status
       ELSE /\ status' = "WorkerError"
            /\ UNCHANGED <<hostCount, h2w>>
  /\ UNCHANGED <<finalized, ready, nextCallId, pending, readyPromise,
                 readyError, calls, posted, finalizeCalls, terminating, w2h>>
  /\ UNCHANGED workerVars
  /\ UNCHANGED <<pendingCallbacks, nextCallbackId, workerCount>>
  /\ UNCHANGED <<obsVars, transport, shared, scan, run>>

\* the promise chain of the 'callback-invoke' branch: the method is applied
\* to the host's own instance and its outcome is posted as callback-result
callbackChain(task) ==
  /\ task \in cbTasks
  /\ cbTasks' = cbTasks \ {task}
  /\ IF task.method = "onMainAdd"
       THEN /\ hostCount' = hostCount + task.arg
            /\ h2w' = postMessage(
                        CallbackResultOk(task.id, hostCount + task.arg))
       ELSE \* the handler throws: .catch posts the serialized error
            /\ UNCHANGED hostCount
            /\ h2w' = postMessage(
                        CallbackResultFail(task.id, serializeError(CallbackError)))
  /\ UNCHANGED hostVars
  /\ UNCHANGED w2h
  /\ UNCHANGED workerVars
  /\ UNCHANGED <<pendingCallbacks, nextCallbackId, workerCount>>
  /\ UNCHANGED <<obsVars, transport, shared, scan, run>>

\* --------------------------------- host: worker.on('error') / on('exit')
\* the observers one event reaches: notified observers in order, and whether
\* something an observer threw leaves callEventHandlers
\* variant: the loop is not guarded, the first failure ends it and escapes
callEventHandlers_unguarded(handlers, event) ==
  LET hs == handlers[event]
      failing == {k \in DOMAIN hs : hs[k].throws}
      n == IF failing = {} THEN Len(hs)
           ELSE CHOOSE k \in failing : \A other \in failing : k <= other
  IN [invoked |-> [k \in 1..n |-> <<event, hs[k].key>>],
      escaped |-> failing # {}]

callEventHandlers(handlers, event) ==
  LET hs == handlers[event] IN
  [invoked |-> [k \in 1..Len(hs) |-> <<event, hs[k].key>>],
   escaped |-> FALSE]

onError ==
  /\ wState = "errorPending"
  /\ wState' = "exitPending"
  /\ wExitCode' = ExitCodeOfTerminate
  /\ status' = "WorkerError"
  /\ LET observed == callEventHandlers(eventHandlers, "error")
         err == toError(wRaised, "Worker error") IN
       /\ notified' = notified \o observed.invoked
       /\ IF observed.escaped
            THEN UNCHANGED <<readyPromise, readyError, calls, pending>>
            ELSE /\ IF ~ready THEN rejectReady(err)
                              ELSE UNCHANGED <<readyPromise, readyError>>
                 /\ calls' = rejectAll(calls, pending, err)
                 /\ pending' = EmptyMap
  /\ wRaised' = NoError
  /\ UNCHANGED <<finalized, ready, nextCallId, posted, finalizeCalls,
                 terminating, h2w, w2h, wActive, wStarted>>
  /\ UNCHANGED <<cbVars, eventHandlers, transport, shared, scan, run>>

\* variant: 'exit' leaves readyPromise alone
onExit_leavesReady ==
  /\ wState = "exitPending"
  /\ w2h = <<>>
  /\ wState' = "exited"
  /\ status' = IF ~finalized THEN "Exited" ELSE status
  /\ notified' = notified \o callEventHandlers(eventHandlers, "exit").invoked
  /\ IF ~finalized
       THEN /\ calls' = rejectAll(calls, pending, ExitedError(wExitCode))
            /\ pending' = EmptyMap
       ELSE UNCHANGED <<calls, pending>>
  /\ wExitCode' = NoCode
  /\ wStarted' = <<>>
  /\ UNCHANGED <<finalized, ready, nextCallId, posted, finalizeCalls,
                 terminating, h2w, w2h, wRaised, wActive, readyPromise,
                 readyError>>
  /\ UNCHANGED <<cbVars, eventHandlers, transport, shared, scan, run>>

\* worker_threads drains both ports before it emits 'exit', so every message
\* the context posted has been delivered by then
onExit ==
  /\ wState = "exitPending"
  /\ w2h = <<>>
  /\ wState' = "exited"
  /\ status' = IF ~finalized THEN "Exited" ELSE status
  /\ LET observed == callEventHandlers(eventHandlers, "exit") IN
       /\ notified' = notified \o observed.invoked
       /\ IF observed.escaped
            THEN UNCHANGED <<readyPromise, readyError, calls, pending>>
            ELSE /\ IF ~ready /\ ~finalized
                      THEN rejectReady(ExitedBeforeReadyError(wExitCode))
                      ELSE UNCHANGED <<readyPromise, readyError>>
                 /\ IF ~finalized
                      THEN /\ calls' = rejectAll(calls, pending,
                                          ExitedError(wExitCode))
                           /\ pending' = EmptyMap
                      ELSE UNCHANGED <<calls, pending>>
  /\ wExitCode' = NoCode
  /\ wStarted' = <<>>
  /\ UNCHANGED <<finalized, ready, nextCallId, posted, finalizeCalls,
                 terminating, h2w, w2h, wRaised, wActive>>
  /\ UNCHANGED <<cbVars, eventHandlers, transport, shared, scan, run>>

\* ------------------------------------------------ context: start-up
Alive == wState \in {"starting", "running", "initFailed"}

\* a UInt8 field of a struct: one byte of the instance's buffer
UInt8(value) == value % 256
ReadValue(s, store) == s.stores[store][1]

\* initWorker for a typed-struct class: a temporary instance gives the initial
\* bytes, a SharedArrayBuffer of that length receives a copy of them, the
\* host's instance is created over the shared buffer, and the same
\* SharedArrayBuffer travels in workerData.typedStruct
\* variant: the host's instance stays the temporary one
initTypedStruct_overTemp(initial) ==
  [stores |-> [temp |-> <<UInt8(initial)>>, sab |-> <<UInt8(initial)>>],
   caller |-> NoStore, host |-> "temp", payload |-> "sab",
   context |-> NoStore, writes |-> <<>>]
initTypedStruct(initial) ==
  [stores |-> [temp |-> <<UInt8(initial)>>, sab |-> <<UInt8(initial)>>],
   caller |-> NoStore, host |-> "sab", payload |-> "sab",
   context |-> NoStore, writes |-> <<>>]

\* setupWorkerRuntime, typed-struct branch: Buffer.from(sharedBuffer) is a view
\* of the SharedArrayBuffer, and the context's instance is constructed over it
bindTypedStruct(s) ==
  IF s.payload = NoStore THEN s ELSE [s EXCEPT !.context = s.payload]

\* an assignment to the field of one side's instance
WriteValue(s, by, store, value) ==
  IF store = NoStore THEN s
  ELSE [s EXCEPT !.stores[store] = <<UInt8(value)>>,
                 !.writes = Append(@, [by |-> by, value |-> UInt8(value)])]

\* SharedStructWorker.setValue(value): this.value = value; return this.value
setValue(s, value) == WriteValue(s, "context", s.context, value)

\* PublicSharedWorker.incrementCounter(): this.sharedData.counter++
incrementCounter(s) ==
  IF s.context = NoStore THEN s
  ELSE WriteValue(s, "context", s.context, ReadValue(s, s.context) + 1)

\* what the body of a method does to the buffers of the unit
methodWrites(s, method, arg) ==
  CASE method = "setValue" -> setValue(s, arg)
    [] method = "incrementCounter" -> incrementCounter(s)
    [] OTHER -> s

\* CounterWorker.increment(step): this.count += step; return this.count
\* variant: the count is assigned, not accumulated
increment_assigns(count, step) == step
increment(count, step) == count + step

\* setupWorkerRuntime runs to its last statement
setupWorkerRuntime ==
  /\ wState = "starting"
  /\ wState' = "running"
  /\ w2h' = Append(w2h, ReadyMsg)
  /\ shared' = bindTypedStruct(shared)
  /\ UNCHANGED <<h2w, wRaised, wExitCode, wActive, wStarted>>
  /\ UNCHANGED hostVars
  /\ UNCHANGED <<cbVars, obsVars, transport, scan, run>>

\* setupWorkerRuntime rejects; tryStartWorkerForClass reports init-error
tryStartWorkerForClass(error) ==
  /\ wState = "starting"
  /\ wState' = "initFailed"
  /\ w2h' = Append(w2h, InitErrorMsg(serializeError(error)))
  /\ UNCHANGED <<h2w, wRaised, wExitCode, wActive, wStarted>>
  /\ UNCHANGED hostVars
  /\ UNCHANGED <<cbVars, obsVars, transport, shared, scan, run>>

\* ----------------------------------- context: parentPort.on('message')
\* the message the port delivers next
\* variant: the newest message is delivered first
NextMessage_newest(queue) == queue[Len(queue)]
NextMessage(queue) == Head(queue)

\* what a completed @WorkerFinalize method adds to the context's output
\* before the context stops: the acknowledgement the 'finalize' branch posts
afterFinalizeMethod(queue) == Append(queue, FinalizedMsg)

onInvoke ==
  /\ wState = "running"
  /\ h2w # <<>> /\ NextMessage(h2w).type = "invoke"
  /\ LET message == NextMessage(h2w)
         Returns(result) ==
           /\ w2h' = Append(w2h, ResultOk(message.id, result))
           /\ UNCHANGED <<wState, wExitCode, wActive>>
         Throws(error) ==
           /\ w2h' = Append(w2h, ResultFail(message.id, serializeError(error)))
           /\ UNCHANGED <<wState, wExitCode, wActive>>
         NoCallback == UNCHANGED <<pendingCallbacks, nextCallbackId, workerCount>>
     IN
       /\ wStarted' = Append(wStarted, message.id)
       /\ IF message.method \notin WorkerMethods
            THEN /\ w2h' = Append(w2h, ResultFail(message.id, NotDecoratedError))
                 /\ UNCHANGED <<wState, wExitCode, wActive>>
                 /\ NoCallback
            ELSE CASE message.method = "quickTask" ->
                        /\ Returns(MethodResult(message.method, message.arg))
                        /\ NoCallback
                   [] message.method = "throwError" ->
                        /\ Throws(TestError)
                        /\ NoCallback
                   [] message.method = "longTask" ->
                        /\ wActive' = wActive \cup {message}
                        /\ UNCHANGED <<w2h, wState, wExitCode>>
                        /\ NoCallback
                   [] message.method = "exit" ->
                        /\ wState' = "exitPending"
                        /\ wExitCode' = ExitCodeOfExitMethod
                        /\ wActive' = {}
                        /\ pendingCallbacks' = EmptyMap
                        /\ UNCHANGED <<w2h, nextCallbackId, workerCount>>
                   [] message.method \in FinalizeMethods ->
                        \* the body returns, the result is posted, and the
                        \* context then stops as it does on 'finalize'
                        /\ w2h' = afterFinalizeMethod(Append(w2h,
                                    ResultOk(message.id,
                                      MethodResult(message.method, message.arg))))
                        /\ wState' = "exitPending"
                        /\ wExitCode' = ExitCodeOfProcessExit
                        /\ wActive' = {}
                        /\ pendingCallbacks' = EmptyMap
                        /\ UNCHANGED <<nextCallbackId, workerCount>>
                   [] message.method \in CallbackMethods ->
                        \* the body calls this.<callback>(arg) and awaits it
                        IF CallbackOf(message.method) \in WorkerCallbacks
                          THEN \* the property was replaced: callMainCallback
                            /\ pendingCallbacks' = MapSet(pendingCallbacks,
                                                    nextCallbackId, message)
                            /\ nextCallbackId' = nextCallbackId + 1
                            /\ w2h' = Append(w2h, CallbackInvokeMsg(
                                        nextCallbackId,
                                        CallbackOf(message.method), message.arg))
                            /\ UNCHANGED <<wState, wExitCode, wActive,
                                           workerCount>>
                          ELSE \* the class's own method runs in the context
                            /\ UNCHANGED <<pendingCallbacks, nextCallbackId>>
                            /\ IF CallbackOf(message.method) = "onMainAdd"
                                 THEN /\ workerCount' = workerCount + message.arg
                                      /\ Returns(workerCount + message.arg)
                                 ELSE /\ UNCHANGED workerCount
                                      /\ Throws(CallbackError)
                   [] message.method = "setValue" ->
                        \* this.value = value; return this.value
                        /\ Returns(UInt8(message.arg))
                        /\ NoCallback
                   [] message.method = "incrementCounter" ->
                        \* this.sharedData.counter++; return the counter
                        /\ Returns(ReadValue(incrementCounter(shared),
                                             shared.context))
                        /\ NoCallback
                   [] message.method = "increment" ->
                        \* this.count += step; return this.count
                        /\ workerCount' = increment(workerCount, message.arg)
                        /\ Returns(increment(workerCount, message.arg))
                        /\ UNCHANGED <<pendingCallbacks, nextCallbackId>>
                   [] OTHER ->
                        \* any other body returns at once
                        /\ Returns(MethodResult(message.method, message.arg))
                        /\ NoCallback
  /\ shared' = methodWrites(shared, NextMessage(h2w).method,
                            NextMessage(h2w).arg)
  /\ h2w' = IF wState' = "exitPending" THEN <<>> ELSE Tail(h2w)
  /\ UNCHANGED wRaised
  /\ UNCHANGED hostVars
  /\ UNCHANGED <<hostCount, cbTasks, obsVars, transport, scan, run>>

\* the awaited method body of a suspended invoke returns
methodReturns(message) ==
  /\ wState = "running"
  /\ message \in wActive
  /\ wActive' = wActive \ {message}
  /\ w2h' = Append(w2h, ResultOk(message.id,
                          MethodResult(message.method, message.arg)))
  /\ UNCHANGED <<h2w, wState, wRaised, wExitCode, wStarted>>
  /\ UNCHANGED hostVars
  /\ UNCHANGED <<cbVars, obsVars, transport, shared, scan, run>>

onFinalize ==
  /\ wState = "running"
  /\ h2w # <<>> /\ NextMessage(h2w).type = "finalize"
  /\ h2w' = <<>>
  /\ w2h' = Append(w2h, FinalizedMsg)
  /\ wState' = "exitPending"
  /\ wExitCode' = ExitCodeOfProcessExit
  /\ wActive' = {}
  /\ UNCHANGED <<wRaised, wStarted>>
  /\ UNCHANGED hostVars
  /\ pendingCallbacks' = EmptyMap
  /\ UNCHANGED <<hostCount, cbTasks, nextCallbackId, workerCount>>
  /\ UNCHANGED <<obsVars, transport, shared, scan, run>>

\* variant: the context handles one message to completion before the next, so
\* a callback-result is handled only when no invoke is suspended
onCallbackResult_afterInvoke ==
  /\ wState = "running"
  /\ h2w # <<>> /\ NextMessage(h2w).type = "callback-result"
  /\ pendingCallbacks = EmptyMap
  /\ h2w' = Tail(h2w)
  /\ UNCHANGED <<pendingCallbacks, w2h>>
  /\ UNCHANGED <<wState, wRaised, wExitCode, wActive, wStarted>>
  /\ UNCHANGED hostVars
  /\ UNCHANGED <<hostCount, cbTasks, nextCallbackId, workerCount>>
  /\ UNCHANGED <<obsVars, transport, shared, scan, run>>

\* the 'callback-result' branch: the suspended body resumes with the outcome
\* and its invoke is answered in the same turn
onCallbackResult ==
  /\ wState = "running"
  /\ h2w # <<>> /\ NextMessage(h2w).type = "callback-result"
  /\ h2w' = Tail(h2w)
  /\ LET message == NextMessage(h2w) IN
       IF message.id \notin DOMAIN pendingCallbacks
         THEN UNCHANGED <<pendingCallbacks, w2h>>
         ELSE LET invoke == pendingCallbacks[message.id] IN
           /\ pendingCallbacks' = MapDelete(pendingCallbacks, message.id)
           /\ w2h' = Append(w2h,
                IF message.ok
                  THEN ResultOk(invoke.id, message.result)
                  ELSE \* reject(new Error(failed.error.message))
                       ResultFail(invoke.id, serializeError(
                         Err(TRUE, message.error.message, "Error",
                             "worker-stack"))))
  /\ UNCHANGED <<wState, wRaised, wExitCode, wActive, wStarted>>
  /\ UNCHANGED hostVars
  /\ UNCHANGED <<hostCount, cbTasks, nextCallbackId, workerCount>>
  /\ UNCHANGED <<obsVars, transport, shared, scan, run>>

\* ------------------------------------------- context: ways it stops
\* an exception nobody catches (module load, timer, event callback)
uncaughtException(error) ==
  /\ wState \in {"starting", "running"}
  /\ wState' = "errorPending"
  /\ wRaised' = error
  /\ wActive' = {}
  /\ h2w' = <<>>
  /\ UNCHANGED <<w2h, wExitCode, wStarted>>
  /\ UNCHANGED hostVars
  /\ pendingCallbacks' = EmptyMap
  /\ UNCHANGED <<hostCount, cbTasks, nextCallbackId, workerCount>>
  /\ UNCHANGED <<obsVars, transport, shared, scan, run>>

\* the event loop of a context without message listener runs empty
loopEmpty ==
  /\ wState = "initFailed"
  /\ wState' = "exitPending"
  /\ wExitCode' = ExitCodeOfProcessExit
  /\ h2w' = <<>>
  /\ UNCHANGED <<w2h, wRaised, wActive, wStarted>>
  /\ UNCHANGED hostVars
  /\ pendingCallbacks' = EmptyMap
  /\ UNCHANGED <<hostCount, cbTasks, nextCallbackId, workerCount>>
  /\ UNCHANGED <<obsVars, transport, shared, scan, run>>

\* worker.terminate() requested by finalize takes effect
terminate ==
  /\ terminating
  /\ Alive
  /\ wState' = "exitPending"
  /\ wExitCode' = ExitCodeOfTerminate
  /\ wActive' = {}
  /\ h2w' = <<>>
  /\ UNCHANGED <<w2h, wRaised, wStarted>>
  /\ UNCHANGED hostVars
  /\ pendingCallbacks' = EmptyMap
  /\ UNCHANGED <<hostCount, cbTasks, nextCallbackId, workerCount>>
  /\ UNCHANGED <<obsVars, transport, shared, scan, run>>

\* ------------------------------------------------------------ specification
CallerCalls == \E c \in CallInputs : callWorkerMethod(c[1], c[2])
ArgsEncoded == \E i \in DOMAIN calls : sendInvoke(i)
ReturnDecoded == \E i \in DOMAIN calls : decodeDone(i)
InitFails == \E e \in RaisedValues : tryStartWorkerForClass(e)
BodyReturns == \E m \in wActive : methodReturns(m)
ContextThrows == \E e \in RaisedValues : uncaughtException(e)

Next ==
  \/ CallerCalls
  \/ ArgsEncoded
  \/ ReturnDecoded
  \/ finalize
  \/ onReady
  \/ onInitError
  \/ onResult
  \/ onFinalized
  \/ onError
  \/ onExit
  \/ setupWorkerRuntime
  \/ InitFails
  \/ onInvoke
  \/ BodyReturns
  \/ onFinalize
  \/ ContextThrows
  \/ loopEmpty
  \/ terminate

Spec == Init /\ [][Next]_vars

\* What the event loops of both sides guarantee: a promise continuation that
\* is ready runs, a message that was delivered is handled, an event that was
\* raised is emitted, a timer that was set fires, a requested termination takes
\* effect.  Nothing obliges the caller to call, and nothing obliges the
\* context to throw.
StartsUp == setupWorkerRuntime \/ InitFails
Fairness ==
  /\ WF_vars(ArgsEncoded)
  /\ WF_vars(ReturnDecoded)
  /\ WF_vars(onReady)
  /\ WF_vars(onInitError)
  /\ WF_vars(onResult)
  /\ WF_vars(onFinalized)
  /\ WF_vars(onError)
  /\ WF_vars(onExit)
  /\ WF_vars(StartsUp)
  /\ WF_vars(onInvoke)
  /\ WF_vars(BodyReturns)
  /\ WF_vars(onFinalize)
  /\ WF_vars(loopEmpty)
  /\ WF_vars(terminate)

SpecFair == Init /\ [][Next]_vars /\ Fairness

\* A session whose caller also names a method that is not remotely callable
\* and a method marked @WorkerFinalize, and whose context raises nothing.
MethodInputs ==
  { <<"longTask", 1>>, <<"quickTask", 1>>, <<"plainMethod", 1>>,
    <<"directExit", 5>> }

CallerCallsMethod == \E c \in MethodInputs : callWorkerMethod(c[1], c[2])

NextMethods ==
  \/ CallerCallsMethod
  \/ ArgsEncoded
  \/ ReturnDecoded
  \/ finalize
  \/ onReady
  \/ onResult
  \/ onFinalized
  \/ onExit
  \/ setupWorkerRuntime
  \/ onInvoke
  \/ BodyReturns
  \/ onFinalize
  \/ terminate

SpecMethods == Init /\ [][NextMethods]_vars

\* A session on a class with @WorkerCallback methods (README, CounterWorker):
\* callMainAdd and callMainFail call a callback on their own instance.
CallbackInputs ==
  { <<"callMainAdd", 2>>, <<"callMainFail", 1>>, <<"quickTask", 1>> }

CallerCallsCallback == \E c \in CallbackInputs : callWorkerMethod(c[1], c[2])
CallbackServed == \E t \in cbTasks : callbackChain(t)

NextCallbacks ==
  \/ CallerCallsCallback
  \/ ArgsEncoded
  \/ ReturnDecoded
  \/ finalize
  \/ onReady
  \/ onResult
  \/ onFinalized
  \/ onCallbackInvoke
  \/ CallbackServed
  \/ onExit
  \/ setupWorkerRuntime
  \/ onInvoke
  \/ onCallbackResult
  \/ onFinalize
  \/ terminate

SpecCallbacks == Init /\ [][NextCallbacks]_vars

\* The same class in a session that runs until the caller stops calling:
\* nobody finalizes it and the context does not stop.
NextReverse ==
  \/ CallerCallsCallback
  \/ ArgsEncoded
  \/ ReturnDecoded
  \/ onReady
  \/ onResult
  \/ onCallbackInvoke
  \/ CallbackServed
  \/ setupWorkerRuntime
  \/ onInvoke
  \/ onCallbackResult

\* both event loops run what is ready; the caller is not obliged to call
FairnessReverse ==
  /\ WF_vars(ArgsEncoded)
  /\ WF_vars(ReturnDecoded)
  /\ WF_vars(onReady)
  /\ WF_vars(onResult)
  /\ WF_vars(onCallbackInvoke)
  /\ WF_vars(CallbackServed)
  /\ WF_vars(setupWorkerRuntime)
  /\ WF_vars(onInvoke)
  /\ WF_vars(onCallbackResult)

SpecReverse == Init /\ [][NextReverse]_vars /\ FairnessReverse

\* A session on a class with lifecycle observers: up to two per event, each
\* of which may throw.
Handler(key, throws) == [key |-> key, throws |-> throws]
HandlerLists ==
  { <<>>,
    <<Handler("h1", TRUE)>>,
    <<Handler("h1", TRUE), Handler("h2", FALSE)>>,
    <<Handler("h1", FALSE), Handler("h2", TRUE)>>,
    <<Handler("h1", FALSE), Handler("h2", FALSE)>> }

InitObservers ==
  /\ InitSession
  /\ eventHandlers \in [Events -> HandlerLists]
  /\ transport = NoTransport
  /\ NoAux

ObserverInputs == { <<"longTask", 1>>, <<"exit", 1>> }

CallerCallsObserved == \E c \in ObserverInputs : callWorkerMethod(c[1], c[2])

NextObservers ==
  \/ CallerCallsObserved
  \/ ArgsEncoded
  \/ ReturnDecoded
  \/ onReady
  \/ onResult
  \/ onError
  \/ onExit
  \/ setupWorkerRuntime
  \/ onInvoke
  \/ BodyReturns
  \/ ContextThrows

SpecObservers == InitObservers /\ [][NextObservers]_vars

\* The start-up of a session, up to the point where initWorker settles, on a
\* class with lifecycle observers.  The entry file may also fail to start a
\* runtime at all: tryStartWorkerForClass returns early, nothing listens on
\* the port and the context's event loop runs empty.
startSkipped ==
  /\ wState = "starting"
  /\ wState' = "exitPending"
  /\ wExitCode' = ExitCodeOfProcessExit
  /\ UNCHANGED <<h2w, w2h, wRaised, wActive, wStarted>>
  /\ UNCHANGED hostVars
  /\ UNCHANGED <<cbVars, obsVars, transport, shared, scan, run>>

NextStartup ==
  \/ setupWorkerRuntime
  \/ InitFails
  \/ startSkipped
  \/ ContextThrows
  \/ loopEmpty
  \/ onReady
  \/ onInitError
  \/ onError
  \/ onExit

\* a delivered message is handled and a raised event is emitted; whether and
\* how the context starts is up to the entry file
FairnessStartup ==
  /\ WF_vars(onReady)
  /\ WF_vars(onInitError)
  /\ WF_vars(onError)
  /\ WF_vars(onExit)
  /\ WF_vars(loopEmpty)

SpecStartup == InitObservers /\ [][NextStartup]_vars /\ FairnessStartup

\* ---------------------------------------------------------- transport codec
\* Values the caller can hand to the codec.  A Buffer is a view of a store
\* (an ArrayBuffer or a SharedArrayBuffer) of the memory, or, with store ""
\* owns the bytes it carries; an object of the heap is named by its
\* identity, so that two objects can name each other.
Prim(n) == [t |-> "prim", v |-> n]
Undefined == [t |-> "undefined"]
Arr(items) == [t |-> "array", items |-> items]
BufferView(store, byteOffset, byteLength) ==
  [t |-> "buffer", store |-> store, byteOffset |-> byteOffset,
   byteLength |-> byteLength, bytes |-> <<>>]
BufferFrom(bytes) ==
  [t |-> "buffer", store |-> "", byteOffset |-> 0, byteLength |-> Len(bytes),
   bytes |-> bytes]
Obj(cls, fields) == [t |-> "object", cls |-> cls, fields |-> fields]
StructInst(cls, buffer, fields) ==
  [t |-> "struct", cls |-> cls, buffer |-> buffer, fields |-> fields]
Ref(id, cls) == [t |-> "ref", id |-> id, cls |-> cls]

\* what a recursion that never returns yields
Diverges == [t |-> "diverges"]
DecodeError(message) == [t |-> "error", message |-> message]

\* TransporterInfo of a position, with the design type the compiler emitted
\* for it; "noop" is the descriptor of @TransportNoop
NoClass == ""
Transporter(type, cls, isArray, designType) ==
  [type |-> type, cls |-> cls, isArray |-> isArray, designType |-> designType]
NoTransporter == Transporter("none", NoClass, FALSE, NoClass)
DesignType(cls) == Transporter("none", NoClass, FALSE, cls)
ClassTransporter(cls) == Transporter("class", cls, FALSE, cls)
ArrayTransporter(cls) == Transporter("class", cls, TRUE, "Array")
EncoderTransporter == Transporter("encoder", NoClass, FALSE, NoClass)
NoopTransporter == Transporter("noop", NoClass, FALSE, NoClass)

BUILTIN_TYPES == {"String", "Number", "Boolean", "Date", "RegExp", "Error",
                  "Map", "Set", "WeakMap", "WeakSet", "ArrayBuffer",
                  "SharedArrayBuffer", "DataView", "Promise", "Symbol",
                  "BigInt"}
TYPED_ARRAYS == {"Int8Array", "Uint8Array", "Uint8ClampedArray", "Int16Array",
                 "Uint16Array", "Int32Array", "Uint32Array", "Float32Array",
                 "Float64Array", "BigInt64Array", "BigUint64Array"}
isBuiltinType(cls) ==
  cls = NoClass \/ cls \in BUILTIN_TYPES \/ cls \in TYPED_ARRAYS

\* the classes of the fixtures: which are typed-struct classes, and the
\* transporter of each decorated property
TypedStructClasses ==
  {"MyData", "ComplexData", "SharedStruct", "SimpleStruct", "StructWithFields",
   "PublicSharedData"}
getTypedStructInfo(cls) == cls \in TypedStructClasses

getPropertyTransporter(cls, key) ==
  CASE cls = "NestedData" /\ key = "data" -> ClassTransporter("CustomData")
    [] cls = "ComplexData" /\ key = "nested" -> ClassTransporter("MyData")
    [] cls = "WrapperClass" /\ key = "data" -> ClassTransporter("MyData")
    [] cls = "Node" /\ key = "next" -> ClassTransporter("Node")
    [] cls = "DataWithNoop" /\ key = "noopValue" -> NoopTransporter
    [] cls = "BufferContainer" /\ key = "buffer" -> ClassTransporter("Buffer")
    [] cls = "NestedSharedContainer" /\ key = "data" ->
         ClassTransporter("SharedStruct")
    [] cls = "CircularA" /\ key = "b" -> ClassTransporter("CircularB")
    [] cls = "CircularB" /\ key = "a" ->
         Transporter("class", "CircularA", FALSE, "Object")
    [] cls = "SimpleClass" /\ key = "timestamp" -> ClassTransporter("Date")
    [] cls = "SimpleClass" /\ key = "buffer" -> ClassTransporter("Buffer")
    [] cls = "StructWithFields" /\ key = "timestamp" -> ClassTransporter("Date")
    [] cls = "StructWithFields" /\ key = "buffer" -> ClassTransporter("Buffer")
    [] OTHER -> NoTransporter

\* target class from the transporter or the design type
TargetClass(transporterInfo) ==
  IF transporterInfo.type = "class" THEN transporterInfo.cls
  ELSE IF transporterInfo.designType \notin {NoClass, "Object"}
       THEN transporterInfo.designType
       ELSE NoClass

\* the bytes a Buffer shows, and whether a SharedArrayBuffer backs it
Bytes(buffer, memory) ==
  IF buffer.store = "" THEN buffer.bytes
  ELSE SubSeq(memory.stores[buffer.store].bytes, buffer.byteOffset + 1,
              buffer.byteOffset + buffer.byteLength)
isSharedBuffer(buffer, memory) ==
  buffer.store # "" /\ memory.stores[buffer.store].shared

\* @TransportNoop: the value is always transmitted as undefined
encodeSuppressed_passes(value) == value
encodeSuppressed(value) == Undefined
decodeSuppressed(encoded) == Undefined

\* the TransportEncoder of the fixture, a pair of user functions
encoderEncode(value) == Prim(value.v + 100)
encoderDecode(encoded) == Prim(encoded.v - 100)

\* Buffer -> encode with SharedArrayBuffer support
encodeBuffer_alwaysCopies(value, memory) ==
  [t |-> "Buffer", data |-> Bytes(value, memory), byteOffset |-> 0,
   byteLength |-> 0, isShared |-> FALSE]
encodeBuffer(value, memory) ==
  IF isSharedBuffer(value, memory)
  THEN [t |-> "Buffer", data |-> value.store,
        byteOffset |-> value.byteOffset, byteLength |-> value.byteLength,
        isShared |-> TRUE]
  ELSE [t |-> "Buffer", data |-> Bytes(value, memory), byteOffset |-> 0,
        byteLength |-> 0, isShared |-> FALSE]

\* own enumerable keys of an object, and the value under one
OwnFields(value, memory) ==
  IF value.t = "ref" THEN memory.heap[value.id] ELSE value.fields

RECURSIVE encodeValue(_, _, _, _)
encodeValue(value, transporterInfo, memory, depth) ==
  IF depth = 0 THEN Diverges
  ELSE IF transporterInfo.type = "noop" THEN encodeSuppressed(value)
  ELSE IF value.t = "undefined" THEN value
  ELSE IF transporterInfo.type = "encoder" THEN encoderEncode(value)
  ELSE
    LET targetClass == TargetClass(transporterInfo)
        isArray == transporterInfo.type = "class" /\ transporterInfo.isArray
    IN
    IF value.t = "array" THEN
      LET itemInfo == IF isArray /\ targetClass # NoClass
                      THEN ClassTransporter(targetClass)
                      ELSE NoTransporter
          items == [i \in DOMAIN value.items |->
                      encodeValue(value.items[i], itemInfo, memory,
                                  depth - 1)]
      IN IF \E i \in DOMAIN items : items[i].t = "diverges"
         THEN Diverges
         ELSE Arr(items)
    ELSE IF value.t = "buffer" THEN encodeBuffer(value, memory)
    ELSE IF targetClass = NoClass \/ isBuiltinType(targetClass) THEN value
    ELSE IF value.t \in {"object", "struct", "ref"} THEN
      LET fields == OwnFields(value, memory)
          data == [key \in DOMAIN fields |->
                     encodeValue(fields[key],
                                 getPropertyTransporter(targetClass, key),
                                 memory, depth - 1)]
      IN IF \E key \in DOMAIN data : data[key].t = "diverges"
         THEN Diverges
         ELSE IF getTypedStructInfo(targetClass) /\ value.t = "struct"
         THEN [t |-> "TypedStructClass", className |-> targetClass,
               structBuffer |-> encodeBuffer(value.buffer, memory),
               data |-> data]
         ELSE [t |-> "CustomClass", className |-> targetClass,
               data |-> data]
    ELSE value

\* worker.postMessage: the structured clone of a message body.  A
\* SharedArrayBuffer passes by reference and a Uint8Array by value; an object
\* arrives as a plain object, and a Buffer as a Uint8Array.
RECURSIVE structuredClone(_)
structuredClone(value) ==
  CASE value.t = "array" ->
         Arr([i \in DOMAIN value.items |-> structuredClone(value.items[i])])
    [] value.t \in {"object", "struct"} ->
         Obj("Object", [key \in DOMAIN value.fields |->
                          structuredClone(value.fields[key])])
    [] value.t = "ref" -> Ref(value.id, "Object")
    [] value.t = "buffer" -> [value EXCEPT !.t = "Uint8Array"]
    [] value.t \in {"TypedStructClass", "CustomClass"} ->
         [value EXCEPT !.data = [key \in DOMAIN value.data |->
                                   structuredClone(value.data[key])]]
    [] OTHER -> value

\* Buffer.from(arrayBuffer, byteOffset, length) and Buffer.from(uint8Array)
decodeBuffer(encoded, memory) ==
  IF encoded.isShared
  THEN LET size == Len(memory.stores[encoded.data].bytes)
           byteOffset == IF encoded.byteOffset # 0
                         THEN encoded.byteOffset ELSE 0
           byteLength == IF encoded.byteLength # 0
                         THEN encoded.byteLength ELSE size
       IN IF byteOffset + byteLength > size
          THEN DecodeError("\"length\" is outside of buffer bounds")
          ELSE BufferView(encoded.data, byteOffset, byteLength)
  ELSE BufferFrom(encoded.data)

\* a struct instance over the buffer, or over a copy of it
createTypedStructInstance(targetClass, buffer, clone, memory) ==
  StructInst(targetClass,
             IF clone THEN BufferFrom(Bytes(buffer, memory)) ELSE buffer,
             [key \in {} |-> Undefined])

RECURSIVE decodeValue(_, _, _)
decodeValue(encoded, transporterInfo, memory) ==
  IF transporterInfo.type = "noop" THEN decodeSuppressed(encoded)
  ELSE IF encoded.t = "undefined" THEN encoded
  ELSE IF transporterInfo.type = "encoder" THEN encoderDecode(encoded)
  ELSE
    LET targetClass == TargetClass(transporterInfo)
        isArray == transporterInfo.type = "class" /\ transporterInfo.isArray
    IN
    IF encoded.t = "array" THEN
      LET itemInfo == IF isArray /\ targetClass # NoClass
                      THEN ClassTransporter(targetClass)
                      ELSE NoTransporter
          items == [i \in DOMAIN encoded.items |->
                      decodeValue(encoded.items[i], itemInfo, memory)]
      IN IF \E i \in DOMAIN items : items[i].t = "error"
         THEN items[CHOOSE i \in DOMAIN items : items[i].t = "error"]
         ELSE Arr(items)
    ELSE IF encoded.t = "Buffer" THEN decodeBuffer(encoded, memory)
    ELSE IF encoded.t \in {"TypedStructClass", "CustomClass"}
            /\ targetClass # NoClass THEN
      LET data == [key \in DOMAIN encoded.data |->
                     decodeValue(encoded.data[key],
                                 getPropertyTransporter(targetClass, key),
                                 memory)]
          failed == {key \in DOMAIN data : data[key].t = "error"}
      IN IF encoded.t = "TypedStructClass" THEN
           IF ~getTypedStructInfo(targetClass)
           THEN DecodeError("Class is marked as TypedStructClass but is not a typed-struct class")
           ELSE LET buffer == decodeBuffer(encoded.structBuffer, memory)
                IN IF buffer.t = "error" THEN buffer
                   ELSE IF failed # {} THEN data[CHOOSE key \in failed : TRUE]
                   ELSE [createTypedStructInstance(
                           targetClass, buffer,
                           ~encoded.structBuffer.isShared, memory)
                         EXCEPT !.fields = data]
         ELSE IF failed # {} THEN data[CHOOSE key \in failed : TRUE]
         ELSE Obj(targetClass, data)
    ELSE encoded

\* What a value shows to the code holding it: its class, its fields and,
\* for a Buffer, its bytes and the SharedArrayBuffer region it views.
RECURSIVE Observe(_, _)
Observe(value, memory) ==
  CASE value.t = "array" ->
         Arr([i \in DOMAIN value.items |-> Observe(value.items[i], memory)])
    [] value.t = "object" ->
         Obj(value.cls, [key \in DOMAIN value.fields |->
                           Observe(value.fields[key], memory)])
    [] value.t = "struct" ->
         StructInst(value.cls, Observe(value.buffer, memory),
                    [key \in DOMAIN value.fields |->
                       Observe(value.fields[key], memory)])
    [] value.t = "buffer" ->
         IF isSharedBuffer(value, memory)
         THEN [value EXCEPT !.bytes = Bytes(value, memory)]
         ELSE BufferFrom(Bytes(value, memory))
    [] OTHER -> value

\* ------------------------------------------------- one argument in transit
\* One forward call whose single argument goes through encodeMethodArgs on
\* the host, postMessage, and decodeMethodArgs in the context, after which
\* the method body may write to the Buffer it received.
StackDepth == 5      \* frames the encoder may nest before the engine gives up
MaxWrites == 2       \* writes the method body makes to the Buffer it received
WrittenBytes == {98, 99}

\* the host's memory: an ArrayBuffer, a SharedArrayBuffer, and two Node
\* objects that either form a chain or name each other
Stores == [a1 |-> [shared |-> FALSE, bytes |-> <<20, 21>>],
           r1 |-> [shared |-> TRUE, bytes |-> <<30, 31>>]]
NodeChain == [n1 |-> [value |-> Prim(10), next |-> Ref("n2", "Node")],
              n2 |-> [value |-> Prim(20), next |-> Undefined]]
NodeCycle == [n1 |-> [value |-> Prim(10), next |-> Ref("n2", "Node")],
              n2 |-> [value |-> Prim(20), next |-> Ref("n1", "Node")]]

Input(shape, value, info, heap) ==
  [shape |-> shape, value |-> value, info |-> info, heap |-> heap]
CustomData(value, text) ==
  Obj("CustomData", [value |-> Prim(value), text |-> Prim(text)])
MyData(buffer, extraField) ==
  StructInst("MyData", buffer, [extraField |-> Prim(extraField)])
DataWithNoop(normalValue, noopValue) ==
  Obj("DataWithNoop", [normalValue |-> Prim(normalValue),
                       noopValue |-> Prim(noopValue)])

SupportedInputs ==
  { Input("primitive", Prim(5), DesignType("Number"), NodeChain),
    Input("primitive", Undefined, NoTransporter, NodeChain),
    Input("array", Arr(<<Prim(1), Prim(2)>>), DesignType("Array"), NodeChain),
    Input("array", Arr(<<CustomData(1, 2), CustomData(3, 4)>>),
          ArrayTransporter("CustomData"), NodeChain),
    Input("owned buffer", BufferView("a1", 0, 2), NoTransporter, NodeChain),
    Input("owned buffer", BufferView("a1", 1, 1), NoTransporter, NodeChain),
    Input("shared buffer", BufferView("r1", 0, 2), NoTransporter, NodeChain),
    Input("shared buffer", BufferView("r1", 1, 1), NoTransporter, NodeChain),
    Input("shared buffer", BufferView("r1", 0, 0), NoTransporter, NodeChain),
    Input("shared buffer", BufferView("r1", 1, 0), NoTransporter, NodeChain),
    Input("struct", MyData(BufferView("a1", 0, 2), 7),
          ClassTransporter("MyData"), NodeChain),
    Input("struct", MyData(BufferView("r1", 0, 2), 7),
          ClassTransporter("MyData"), NodeChain),
    Input("class", CustomData(1, 2), ClassTransporter("CustomData"),
          NodeChain),
    Input("nested", Obj("NestedData", [data |-> CustomData(1, 2)]),
          ClassTransporter("NestedData"), NodeChain),
    Input("nested", Obj("WrapperClass",
                        [data |-> MyData(BufferView("r1", 0, 2), 7),
                         label |-> Prim(3)]),
          ClassTransporter("WrapperClass"), NodeChain),
    Input("nested", Arr(<<BufferView("a1", 0, 2), BufferView("r1", 0, 1)>>),
          NoTransporter, NodeChain) }

OtherInputs ==
  { Input("encoder", Prim(5), EncoderTransporter, NodeChain),
    Input("noop", Prim(8), NoopTransporter, NodeChain),
    Input("noop", Prim(9), NoopTransporter, NodeChain),
    Input("noop field", DataWithNoop(1, 8),
          ClassTransporter("DataWithNoop"), NodeChain),
    Input("noop field", DataWithNoop(1, 9),
          ClassTransporter("DataWithNoop"), NodeChain),
    Input("chain", Ref("n1", "Node"), ClassTransporter("Node"), NodeChain),
    Input("cycle", Ref("n1", "Node"), ClassTransporter("Node"), NodeCycle),
    Input("cycle", Ref("n1", "Node"), NoTransporter, NodeCycle) }

TransportInputs == SupportedInputs \cup OtherInputs

StartTransport(input) ==
  [pc |-> "calling", shape |-> input.shape, value |-> input.value,
   info |-> input.info,
   memory |-> [stores |-> Stores, heap |-> input.heap],
   encoded |-> Undefined, wire |-> Undefined, decoded |-> Undefined,
   outcome |-> Unsettled, sent |-> <<>>, writes |-> <<>>]

sessionVars ==
  <<hostVars, h2w, w2h, workerVars, cbVars, obsVars, shared, scan, run>>

InitTransport ==
  /\ InitSession
  /\ eventHandlers = NoHandlers
  /\ transport \in {StartTransport(input) : input \in TransportInputs}
  /\ NoAux

StackOverflowError ==
  Err(TRUE, "Maximum call stack size exceeded", "RangeError", "host-stack")

\* callWorkerMethod up to `await encodeMethodArgs(...)`.  On a value graph
\* that names itself the recursion of encodeValue has no end: the promise
\* never settles, or the engine's stack overflows and it rejects.
encodeMethodArgs ==
  /\ transport.pc = "calling"
  /\ LET encoded == encodeValue(transport.value, transport.info,
                                transport.memory, StackDepth)
     IN IF encoded.t = "diverges"
        THEN \/ transport' = [transport EXCEPT !.pc = "hung"]
             \/ transport' = [transport EXCEPT
                                !.pc = "rejected",
                                !.outcome = Rejected(StackOverflowError)]
        ELSE transport' = [transport EXCEPT !.pc = "encoded",
                                            !.encoded = encoded]
  /\ UNCHANGED sessionVars

\* callWorkerMethod after the await: the invoke message is posted
postInvoke ==
  /\ transport.pc = "encoded"
  /\ LET wire == structuredClone(transport.encoded)
     IN transport' = [transport EXCEPT
                        !.pc = "posted", !.wire = wire,
                        !.sent = Append(@, [type |-> "invoke",
                                            args |-> wire])]
  /\ UNCHANGED sessionVars

\* the context's invoke handler up to `await decodeMethodArgs(...)`; an
\* error thrown there is sent back as the failure of the call
decodeMethodArgs ==
  /\ transport.pc = "posted"
  /\ LET decoded == decodeValue(transport.wire, transport.info,
                                transport.memory)
     IN IF decoded.t = "error"
        THEN transport' = [transport EXCEPT
                             !.pc = "rejected",
                             !.outcome = Rejected(
                               serializeError(NewError(decoded.message)))]
        ELSE transport' = [transport EXCEPT !.pc = "decoded",
                                            !.decoded = decoded]
  /\ UNCHANGED sessionVars

\* the Buffer of a value: the value itself, or the raw buffer of a struct
HasBuffer(value) == value.t \in {"buffer", "struct"}
BufferOf(value) == IF value.t = "struct" THEN value.buffer ELSE value

writeUInt8(buffer, memory, byte, index) ==
  IF buffer.store = ""
  THEN [buffer |-> [buffer EXCEPT !.bytes[index + 1] = byte],
        memory |-> memory]
  ELSE [buffer |-> buffer,
        memory |-> [memory EXCEPT
                      !.stores[buffer.store].bytes[
                         buffer.byteOffset + index + 1] = byte]]

\* the method body writes one byte to the Buffer it was given
modifyBuffer(byte, index) ==
  /\ transport.pc = "decoded"
  /\ HasBuffer(transport.decoded)
  /\ Len(transport.writes) < MaxWrites
  /\ index < BufferOf(transport.decoded).byteLength
  /\ LET written == writeUInt8(BufferOf(transport.decoded),
                               transport.memory, byte, index)
     IN transport' = [transport EXCEPT
          !.decoded = IF @.t = "struct"
                      THEN [@ EXCEPT !.buffer = written.buffer]
                      ELSE written.buffer,
          !.memory = written.memory,
          !.writes = Append(@, [index |-> index, byte |-> byte])]
  /\ UNCHANGED sessionVars

MethodWrites ==
  \E byte \in WrittenBytes, index \in 0..1 : modifyBuffer(byte, index)

NextTransport ==
  \/ encodeMethodArgs
  \/ postInvoke
  \/ decodeMethodArgs
  \/ MethodWrites

SpecTransport == InitTransport /\ [][NextTransport]_vars

\* ----------------------------------------------------- struct-typed units
\* A session on SharedStructWorker (a struct with one UInt8 field 'value'),
\* started with initWorker(SharedStructWorker, [0x10]).
InitialValue == 16
CalledValue == 127       \* the caller's setValue(0x7f)
AssignedValue == 1       \* what the caller assigns to the field itself

InitStruct ==
  /\ InitSession
  /\ eventHandlers = NoHandlers
  /\ transport = NoTransport
  /\ shared = initTypedStruct(InitialValue)
  /\ scan = NoScan
  /\ run = NoRun

HostWrites(s) == {i \in DOMAIN s.writes : s.writes[i].by = "host"}

\* the caller assigns the field of the instance initWorker returned
hostSetsValue(value) ==
  /\ InstanceReturned
  /\ Cardinality(HostWrites(shared)) < MaxWrites
  /\ shared' = WriteValue(shared, "host", shared.host, value)
  /\ UNCHANGED <<hostVars, h2w, w2h, workerVars, cbVars, obsVars>>
  /\ UNCHANGED <<transport, scan, run>>

CallerSetsValue == callWorkerMethod("setValue", CalledValue)
CallerWritesField == hostSetsValue(AssignedValue)

NextStruct ==
  \/ CallerSetsValue
  \/ CallerWritesField
  \/ ArgsEncoded
  \/ ReturnDecoded
  \/ finalize
  \/ onReady
  \/ onResult
  \/ onFinalized
  \/ onExit
  \/ setupWorkerRuntime
  \/ onInvoke
  \/ onFinalize
  \/ terminate

SpecStruct == InitStruct /\ [][NextStruct]_vars

\* ------------------------------------------------------------- the counter
\* A session on CounterWorker whose caller awaits each increment(step) before
\* it issues the next one.
MaxIncrements == 3
Steps == 1..3

AllSettled == \A i \in DOMAIN calls : calls[i].pc = "settled"

CallerIncrements ==
  \E step \in Steps :
    AllSettled /\ callWorkerMethodUpTo(MaxIncrements, "increment", step)

NextCounter ==
  \/ CallerIncrements
  \/ ArgsEncoded
  \/ ReturnDecoded
  \/ finalize
  \/ onReady
  \/ onResult
  \/ onFinalized
  \/ onExit
  \/ setupWorkerRuntime
  \/ onInvoke
  \/ onFinalize
  \/ terminate

SpecCounter == Init /\ [][NextCounter]_vars

\* ----------------------------------------------------------- shared memory
\* what a call of one of the shared-memory functions yields
Returned(v) == [t |-> "returned", v |-> v]
Threw(name, message) == [t |-> "threw", name |-> name, message |-> message]

\* transporterKeys of a prototype: the properties that carry @TransportType
transporterKeys(cls) ==
  CASE cls \in {"BufferContainer"} -> <<"buffer">>
    [] cls \in {"NestedSharedContainer", "NestedData", "WrapperClass"} ->
         <<"data">>
    [] cls = "ComplexData" -> <<"nested">>
    [] cls = "Node" -> <<"next">>
    [] cls = "CircularA" -> <<"b">>
    [] cls = "CircularB" -> <<"a">>
    [] cls \in {"SimpleClass", "StructWithFields"} -> <<"timestamp", "buffer">>
    [] OTHER -> <<>>

SharedMemoryClasses == {"Buffer", "SharedArrayBuffer"}
Answer(answer, visited) == [answer |-> answer, visited |-> visited]

\* hasSharedMemorySegments(cls, visited); `visited` is one WeakSet that all
\* the nested calls add to
RECURSIVE hasSharedMemorySegments(_, _)
RECURSIVE hasSharedMemorySegmentsIn(_, _, _)
hasSharedMemorySegments(cls, visited) ==
  IF cls \in visited THEN Answer(FALSE, visited)
  ELSE LET seen == visited \cup {cls} IN
    IF getTypedStructInfo(cls) THEN Answer(TRUE, seen)
    ELSE IF cls \in SharedMemoryClasses THEN Answer(TRUE, seen)
    ELSE IF isBuiltinType(cls) THEN Answer(FALSE, seen)
    ELSE hasSharedMemorySegmentsIn(cls, transporterKeys(cls), seen)

\* the loop over the decorated properties of a user class
hasSharedMemorySegmentsIn(cls, keys, visited) ==
  IF keys = <<>> THEN Answer(FALSE, visited)
  ELSE
    LET info == getPropertyTransporter(cls, Head(keys))
        designType == info.designType
    IN
    IF designType \in SharedMemoryClasses THEN Answer(TRUE, visited)
    ELSE
      LET byDesignType ==
            IF designType # NoClass /\ ~isBuiltinType(designType)
            THEN hasSharedMemorySegments(designType, visited)
            ELSE Answer(FALSE, visited)
      IN
      IF byDesignType.answer THEN byDesignType
      ELSE
        LET byTransporter ==
              IF info.type # "class" THEN Answer(FALSE, byDesignType.visited)
              ELSE IF info.cls \in SharedMemoryClasses
                   THEN Answer(TRUE, byDesignType.visited)
                   ELSE hasSharedMemorySegments(info.cls,
                                                byDesignType.visited)
        IN
        IF byTransporter.answer THEN byTransporter
        ELSE hasSharedMemorySegmentsIn(cls, Tail(keys),
                                       byTransporter.visited)

NotConstructorParameter ==
  Threw("TypeError", "@Shared can only be used on constructor parameters")
NoTypeInformation == Threw("TypeError", "has no type information")
NoSharedSegments ==
  Threw("TypeError", "does not contain any shared memory segments")
Registered == Returned("registered")

\* @Shared(factory) applied to a parameter, as utility/shared-decorator.ts
\* has it: the parameter is registered and marked with TransportType
Shared(onConstructor, actualType) ==
  IF ~onConstructor THEN NotConstructorParameter
  ELSE IF actualType = NoClass THEN NoTypeInformation
  ELSE Registered

\* @Shared(factory) in the copy of the decorator that scans the type first
SharedScanning(onConstructor, actualType) ==
  IF ~onConstructor THEN NotConstructorParameter
  ELSE IF actualType = NoClass THEN NoTypeInformation
  ELSE IF ~hasSharedMemorySegments(actualType, {}).answer
       THEN NoSharedSegments
  ELSE Registered

\* Values of the shared-memory functions.  An object, an array or a struct
\* instance lives in the heap under its identity and is named by Ref(id, cls);
\* the raw buffer of a struct instance is its heap entry's `raw`, and an
\* array is an object of class Array whose keys are its indices.
SharedArrayBufferOf(store) == [t |-> "sab", store |-> store]
RawKey == "raw"
OwnKeys(value, memory) == DOMAIN memory.heap[value.id] \ {RawKey}
Field(value, key, memory) == memory.heap[value.id][key]

\* Buffer: 0 when a SharedArrayBuffer backs it, obj.length otherwise
\* variant: the length is counted whatever backs the Buffer
sizeOfBuffer_countsShared(buffer, memory) == buffer.byteLength
sizeOfBuffer(buffer, memory) ==
  IF isSharedBuffer(buffer, memory) THEN 0 ELSE buffer.byteLength

\* a field of a class instance counts only with explicit metadata
hasExplicitMetadata(cls, key) ==
  LET info == getPropertyTransporter(cls, key) IN
    \/ info.type = "class"
    \/ info.designType # NoClass /\ ~isBuiltinType(info.designType)

Size(size, visited) == [size |-> size, visited |-> visited]

\* calculateSharedMemorySize(obj, visited)
RECURSIVE calculateSharedMemorySize(_, _, _)
RECURSIVE calculateSharedMemorySizeOf(_, _, _, _, _)
calculateSharedMemorySize(obj, memory, visited) ==
  IF obj.t \in {"undefined", "prim"} THEN Size(0, visited)
  ELSE IF obj \in visited THEN Size(0, visited)
  ELSE
    LET seen == visited \cup {obj} IN
    IF obj.t = "buffer" THEN Size(sizeOfBuffer(obj, memory), seen)
    ELSE IF obj.t = "sab" THEN Size(0, seen)
    ELSE IF obj.cls = "Array"
      THEN calculateSharedMemorySizeOf(obj, OwnKeys(obj, memory), TRUE,
                                       memory, seen)
    ELSE IF isBuiltinType(obj.cls) THEN Size(0, seen)
    ELSE IF getTypedStructInfo(obj.cls)
      THEN LET rawBuffer == Field(obj, RawKey, memory) IN
           IF isSharedBuffer(rawBuffer, memory) THEN Size(0, seen)
           ELSE LET rest == calculateSharedMemorySizeOf(
                              obj, OwnKeys(obj, memory), FALSE, memory, seen)
                IN Size(rawBuffer.byteLength + rest.size, rest.visited)
    ELSE IF obj.cls # "Object"
      THEN calculateSharedMemorySizeOf(obj, OwnKeys(obj, memory), FALSE,
                                       memory, seen)
    ELSE calculateSharedMemorySizeOf(obj, OwnKeys(obj, memory), TRUE,
                                     memory, seen)

\* the loops over Object.keys(obj): every key, or the keys with metadata
calculateSharedMemorySizeOf(obj, keys, every, memory, visited) ==
  IF keys = {} THEN Size(0, visited)
  ELSE
    LET key == CHOOSE k \in keys : TRUE
        first == IF every \/ hasExplicitMetadata(obj.cls, key)
                 THEN calculateSharedMemorySize(Field(obj, key, memory),
                                                memory, visited)
                 ELSE Size(0, visited)
        rest == calculateSharedMemorySizeOf(obj, keys \ {key}, every,
                                            memory, first.visited)
    IN Size(first.size + rest.size, rest.visited)

\* toShared: whether a property's transporter makes toShared convert it
shouldConvertWithTransporter(transporter) ==
  transporter.type = "class" /\ ~isBuiltinType(transporter.cls)

\* new SharedArrayBuffer(length) and the new instance of a struct class:
\* identities the memory does not hold yet
FreshStores == <<"m1", "m2", "m3", "m4">>
FreshObjects == <<"t1", "t2", "t3">>
FirstFree(names, used) ==
  names[CHOOSE i \in DOMAIN names :
          /\ names[i] \notin used
          /\ \A j \in 1..(i - 1) : names[j] \in used]

\* Buffer.from(new SharedArrayBuffer(value.length)); value.copy(shared)
copyToShared(buffer, memory) ==
  LET store == FirstFree(FreshStores, DOMAIN memory.stores) IN
    [buffer |-> BufferView(store, 0, buffer.byteLength),
     memory |-> [memory EXCEPT
                   !.stores = MapSet(@, store,
                                [shared |-> TRUE,
                                 bytes |-> Bytes(buffer, memory)])]]

Converted(value, memory, visited) ==
  [value |-> value, memory |-> memory, visited |-> visited]

\* toShared(inst) without options: convert(value), with the WeakSet `visited`
\* variant of the struct branch: the instance handed in is rebound in place
RECURSIVE convert(_, _, _)
RECURSIVE convertFields(_, _, _, _, _, _)
convertStruct_inPlace(value, memory, visited) ==
  LET copy == copyToShared(Field(value, RawKey, memory), memory) IN
    convertFields(value, value, OwnKeys(value, memory), FALSE,
                  [copy.memory EXCEPT !.heap[value.id][RawKey] = copy.buffer],
                  visited \cup {value})
convertStruct(value, memory, visited) ==
  LET copy == copyToShared(Field(value, RawKey, memory), memory)
      id == FirstFree(FreshObjects, DOMAIN memory.heap)
      newInstance == Ref(id, value.cls)
  IN convertFields(value, newInstance, OwnKeys(value, memory), FALSE,
                   [copy.memory EXCEPT
                      !.heap = MapSet(@, id, [raw |-> copy.buffer])],
                   visited \cup {value})

\* variant: an object met again is not returned, the reference to it is lost
convert_dropsRevisited(value, memory, visited) ==
  IF value.t \in {"undefined", "prim"} THEN Converted(value, memory, visited)
  ELSE IF value \in visited THEN Converted(Undefined, memory, visited)
  ELSE IF value.t = "buffer"
    THEN IF isSharedBuffer(value, memory)
         THEN Converted(value, memory, visited)
         ELSE LET copy == copyToShared(value, memory)
              IN Converted(copy.buffer, copy.memory, visited)
  ELSE IF value.t = "sab" THEN Converted(value, memory, visited)
  ELSE IF value.cls = "Array"
    THEN convertFields(value, value, OwnKeys(value, memory), TRUE, memory,
                       visited \cup {value})
  ELSE IF value.cls \in BUILTIN_TYPES \cup TYPED_ARRAYS
    THEN Converted(value, memory, visited)
  ELSE IF getTypedStructInfo(value.cls)
    THEN convertStruct(value, memory, visited)
  ELSE IF value.cls # "Object"
    THEN convertFields(value, value, OwnKeys(value, memory), FALSE, memory,
                       visited \cup {value})
  ELSE convertFields(value, value, OwnKeys(value, memory), TRUE, memory,
                     visited \cup {value})

convert(value, memory, visited) ==
  IF value.t \in {"undefined", "prim"} THEN Converted(value, memory, visited)
  ELSE IF value \in visited THEN Converted(value, memory, visited)
  ELSE IF value.t = "buffer"
    THEN IF isSharedBuffer(value, memory)
         THEN Converted(value, memory, visited)
         ELSE LET copy == copyToShared(value, memory)
              IN Converted(copy.buffer, copy.memory, visited)
  ELSE IF value.t = "sab" THEN Converted(value, memory, visited)
  ELSE IF value.cls = "Array"
    THEN convertFields(value, value, OwnKeys(value, memory), TRUE, memory,
                       visited \cup {value})
  ELSE IF value.cls \in BUILTIN_TYPES \cup TYPED_ARRAYS
    THEN Converted(value, memory, visited)
  ELSE IF getTypedStructInfo(value.cls)
    THEN convertStruct(value, memory, visited)
  ELSE IF value.cls # "Object"
    THEN convertFields(value, value, OwnKeys(value, memory), FALSE, memory,
                       visited \cup {value})
  ELSE convertFields(value, value, OwnKeys(value, memory), TRUE, memory,
                     visited \cup {value})

\* the loops over Object.keys(value): target[key] = convert(value[key]) for
\* every key or for the keys whose transporter asks for it; a new instance
\* receives the other fields as they are
convertFields(value, target, keys, every, memory, visited) ==
  IF keys = {} THEN Converted(target, memory, visited)
  ELSE
    LET key == CHOOSE k \in keys : TRUE
        fieldValue == Field(value, key, memory)
        converts == \/ every
                    \/ shouldConvertWithTransporter(
                         getPropertyTransporter(value.cls, key))
        first == IF converts THEN convert(fieldValue, memory, visited)
                 ELSE Converted(fieldValue, memory, visited)
    IN convertFields(value, target, keys \ {key}, every,
                     [first.memory EXCEPT
                        !.heap[target.id] = MapSet(@, key, first.value)],
                     first.visited)

toShared(inst, memory) == convert(inst, memory, {})

\* The classes and the objects of the tests: SharedStruct, SimpleStruct and
\* StructWithFields are struct classes; BufferContainer, SimpleClass and
\* NestedSharedContainer have decorated fields; NoSharedMemory,
\* CircularClass and PlainHolder have none.
ScanClasses ==
  {"SharedStruct", "Buffer", "SharedArrayBuffer", "BufferContainer",
   "NestedSharedContainer", "NoSharedMemory", "String", "Number", "Date",
   "CircularA", "CircularB", "Object"}
ScanHeap ==
  [st1 |-> [raw |-> BufferView("a1", 0, 2)],
   st2 |-> [raw |-> BufferView("r1", 0, 2)],
   bc1 |-> [buffer |-> BufferView("a1", 0, 2)],
   bc2 |-> [buffer |-> BufferView("r1", 0, 2)],
   ns1 |-> [value |-> Prim(0), name |-> Prim(0)],
   nc1 |-> [data |-> Ref("st1", "SharedStruct")],
   ar1 |-> [i0 |-> Ref("st1", "SharedStruct"), i1 |-> BufferView("a1", 1, 1)],
   k1 |-> [struct |-> Ref("st1", "SharedStruct"), self |-> Ref("k1", "Object")],
   d1 |-> EmptyMap,
   sc1 |-> [timestamp |-> Ref("d1", "Date"), buffer |-> BufferFrom(<<1, 2, 3>>)],
   sf1 |-> [raw |-> BufferView("a1", 0, 2), timestamp |-> Ref("d1", "Date"),
            buffer |-> BufferFrom(<<1, 2, 3>>)],
   cc1 |-> [value |-> Prim(0), ref |-> Ref("cc2", "CircularClass")],
   cc2 |-> [value |-> Prim(0), ref |-> Ref("cc1", "CircularClass")],
   ca1 |-> [b |-> Ref("cb1", "CircularB")],
   cb1 |-> [a |-> Ref("ca1", "CircularA")],
   ph1 |-> [buffer |-> BufferView("a1", 0, 2)]]
ScanMemory == [stores |-> Stores, heap |-> ScanHeap]

\* a value with the shape the caller sees in it and, where it holds exactly
\* one Buffer, that Buffer
ValueInput(shape, value, buffer) ==
  [shape |-> shape, value |-> value, buffer |-> buffer]
ValueInputs ==
  { ValueInput("owned buffer", BufferView("a1", 0, 2), BufferView("a1", 0, 2)),
    ValueInput("owned buffer", BufferView("a1", 1, 1), BufferView("a1", 1, 1)),
    ValueInput("owned buffer", BufferFrom(<<1, 2, 3>>),
               BufferFrom(<<1, 2, 3>>)),
    ValueInput("shared buffer", BufferView("r1", 0, 2), BufferView("r1", 0, 2)),
    ValueInput("shared region", SharedArrayBufferOf("r1"), Undefined),
    ValueInput("owned struct", Ref("st1", "SharedStruct"),
               BufferView("a1", 0, 2)),
    ValueInput("shared struct", Ref("st2", "SharedStruct"),
               BufferView("r1", 0, 2)),
    ValueInput("struct with fields", Ref("sf1", "StructWithFields"),
               Undefined),
    ValueInput("class with owned buffer", Ref("bc1", "BufferContainer"),
               BufferView("a1", 0, 2)),
    ValueInput("class with owned buffer", Ref("sc1", "SimpleClass"),
               BufferFrom(<<1, 2, 3>>)),
    ValueInput("class with shared buffer", Ref("bc2", "BufferContainer"),
               BufferView("r1", 0, 2)),
    ValueInput("class with nested struct", Ref("nc1", "NestedSharedContainer"),
               BufferView("a1", 0, 2)),
    ValueInput("class without segments", Ref("ns1", "NoSharedMemory"),
               Undefined),
    ValueInput("class with undecorated buffer", Ref("ph1", "PlainHolder"),
               BufferView("a1", 0, 2)),
    ValueInput("array", Ref("ar1", "Array"), Undefined),
    ValueInput("built-in", Ref("d1", "Date"), Undefined),
    ValueInput("primitive", Prim(5), Undefined),
    ValueInput("undefined", Undefined, Undefined),
    ValueInput("object naming itself", Ref("k1", "Object"), Undefined),
    ValueInput("objects naming each other", Ref("cc1", "CircularClass"),
               Undefined),
    ValueInput("decorated objects naming each other", Ref("ca1", "CircularA"),
               Undefined) }

StartScan(op, cls, onConstructor, input) ==
  [pc |-> "calling", op |-> op, cls |-> cls, onConstructor |-> onConstructor,
   input |-> input, memory |-> ScanMemory, result |-> Undefined,
   copy |-> "", writes |-> <<>>]

ScanStarts ==
  {StartScan("hasSharedMemorySegments", cls, TRUE,
             ValueInput("type", Undefined, Undefined)) : cls \in ScanClasses}
  \cup
  {StartScan("Shared", cls, onConstructor,
             ValueInput("type", Undefined, Undefined)) :
     cls \in ScanClasses \cup {NoClass}, onConstructor \in BOOLEAN}
  \cup
  {StartScan(op, NoClass, TRUE, input) :
     op \in {"calculateSharedMemorySize", "toShared"}, input \in ValueInputs}

scanVars == <<hostVars, h2w, w2h, workerVars, cbVars, obsVars, transport,
              shared, run>>

InitSharedMemory ==
  /\ InitSession
  /\ eventHandlers = NoHandlers
  /\ transport = NoTransport
  /\ shared = NoShared
  /\ run = NoRun
  /\ scan \in ScanStarts

Finish(result) == scan' = [scan EXCEPT !.pc = "done", !.result = result]

\* a caller asks whether a type has shared memory segments
callHasSharedMemorySegments ==
  /\ scan.pc = "calling" /\ scan.op = "hasSharedMemorySegments"
  /\ Finish(Returned(hasSharedMemorySegments(scan.cls, {}).answer))
  /\ UNCHANGED scanVars

\* a class definition applies @Shared to a parameter
applyShared ==
  /\ scan.pc = "calling" /\ scan.op = "Shared"
  /\ scan' = [scan EXCEPT !.pc = "done", !.copy = "shared-decorator.ts",
                          !.result = Shared(scan.onConstructor, scan.cls)]
  /\ UNCHANGED scanVars

\* the same with the copy of the decorator that scans the type
applySharedScanning ==
  /\ scan.pc = "calling" /\ scan.op = "Shared"
  /\ scan' = [scan EXCEPT !.pc = "done", !.copy = "scanning",
                          !.result = SharedScanning(scan.onConstructor,
                                                    scan.cls)]
  /\ UNCHANGED scanVars

\* a caller asks for the size of the shared memory a value needs
callCalculateSharedMemorySize ==
  /\ scan.pc = "calling" /\ scan.op = "calculateSharedMemorySize"
  /\ Finish(Returned(calculateSharedMemorySize(scan.input.value, scan.memory,
                                               {}).size))
  /\ UNCHANGED scanVars

\* a caller converts a value with toShared
callToShared ==
  /\ scan.pc = "calling" /\ scan.op = "toShared"
  /\ LET converted == toShared(scan.input.value, scan.memory) IN
       scan' = [scan EXCEPT !.pc = "done", !.memory = converted.memory,
                            !.result = Returned(converted.value)]
  /\ UNCHANGED scanVars

\* the Buffer a value shows its bytes through: the value, the raw buffer of
\* a struct instance, or the `buffer` field of a class instance
BufferIn(value, memory) ==
  IF value.t = "buffer" THEN value
  ELSE IF value.t # "ref" THEN Undefined
  ELSE IF RawKey \in DOMAIN memory.heap[value.id]
    THEN memory.heap[value.id][RawKey]
  ELSE IF "buffer" \in DOMAIN memory.heap[value.id]
    THEN memory.heap[value.id]["buffer"]
  ELSE Undefined

\* after toShared the caller writes one byte through the value it handed in
\* or through the value it got back
writeThrough(which, byte) ==
  /\ scan.pc = "done" /\ scan.op = "toShared"
  /\ Len(scan.writes) < MaxWrites
  /\ LET value == IF which = "original" THEN scan.input.value
                   ELSE scan.result.v
          buffer == BufferIn(value, scan.memory)
     IN /\ buffer.t = "buffer"
        /\ buffer.store # ""
        /\ scan' = [scan EXCEPT
                      !.memory = writeUInt8(buffer, scan.memory, byte, 0).memory,
                      !.writes = Append(@, [through |-> which, byte |-> byte])]
  /\ UNCHANGED scanVars

CallerWrites ==
  \E which \in {"original", "result"}, byte \in WrittenBytes :
    writeThrough(which, byte)

NextSharedMemory ==
  \/ callHasSharedMemorySegments
  \/ applyShared
  \/ applySharedScanning
  \/ callCalculateSharedMemorySize
  \/ callToShared
  \/ CallerWrites

SpecSharedMemory == InitSharedMemory /\ [][NextSharedMemory]_vars

\* ------------------------------------------------- @Shared ctor parameters
\* A session on PublicSharedWorker, constructor(@Shared(() =>
\* PublicSharedData) public sharedData), started with a struct instance
\* `data` whose counter is 100.
InitialCounter == 100
CallerCounter == 200     \* data.counter = 200 on the object handed in

\* the struct instance a Ref names, as a value of the codec
AsStructInst(value, memory) ==
  StructInst(value.cls, Field(value, RawKey, memory),
             [key \in OwnKeys(value, memory) |-> Field(value, key, memory)])

\* initWorker with one @Shared parameter: toShared(arg) replaces the
\* argument, the host's instance is constructed with it, and encodeCtorArgs
\* of it travels in workerData.ctorArgs
initSharedParam(initial) ==
  LET arg == Ref("data", "PublicSharedData")
      before == [stores |-> [arg |-> [shared |-> FALSE,
                                      bytes |-> <<UInt8(initial)>>]],
                 heap |-> [data |-> [raw |-> BufferView("arg", 0, 1)]]]
      sharedArg == toShared(arg, before)
      memory == sharedArg.memory
      info == ClassTransporter("PublicSharedData")
      wire == structuredClone(
                encodeValue(AsStructInst(sharedArg.value, memory), info,
                            memory, StackDepth))
      decoded == decodeValue(wire, info, memory)
      stores == [store \in DOMAIN memory.stores |->
                   memory.stores[store].bytes]
  IN [stores |-> IF decoded.buffer.store = ""
                 THEN MapSet(stores, "copy", decoded.buffer.bytes)
                 ELSE stores,
      caller |-> Field(arg, RawKey, memory).store,
      host |-> Field(sharedArg.value, RawKey, memory).store,
      payload |-> IF decoded.buffer.store = "" THEN "copy"
                  ELSE decoded.buffer.store,
      context |-> NoStore,
      writes |-> <<>>]

InitSharedParam ==
  /\ InitSession
  /\ eventHandlers = NoHandlers
  /\ transport = NoTransport
  /\ shared = initSharedParam(InitialCounter)
  /\ scan = NoScan
  /\ run = NoRun

CallerWrote(s) == {i \in DOMAIN s.writes : s.writes[i].by = "caller"}

\* the caller assigns the counter of the object it passed to initWorker
callerSetsCounter(value) ==
  /\ InstanceReturned
  /\ Cardinality(CallerWrote(shared)) < MaxWrites
  /\ shared' = WriteValue(shared, "caller", shared.caller, value)
  /\ UNCHANGED <<hostVars, h2w, w2h, workerVars, cbVars, obsVars>>
  /\ UNCHANGED <<transport, scan, run>>

NoArgument == 1          \* a call without arguments: nothing that fails to clone
CallerIncrementsCounter == callWorkerMethod("incrementCounter", NoArgument)
CallerWritesArgument == callerSetsCounter(CallerCounter)

NextSharedParam ==
  \/ CallerIncrementsCounter
  \/ CallerWritesArgument
  \/ CallerWritesField
  \/ ArgsEncoded
  \/ ReturnDecoded
  \/ finalize
  \/ onReady
  \/ onResult
  \/ onFinalized
  \/ onExit
  \/ setupWorkerRuntime
  \/ onInvoke
  \/ onFinalize
  \/ terminate

SpecSharedParam == InitSharedParam /\ [][NextSharedParam]_vars

\* ------------------------------------------------------------ runInWorker
\* runInWorker(CounterWorker, cb): the callback awaits the calls it makes one
\* after the other, and either returns what the last one gave or throws.
RunCallbackError == Err(TRUE, "callback threw", "Error", "host-stack")
CallbackPlans == {"returns", "throws"}
CallbackSteps == {2, 3}

StartRun(plan) ==
  [pc |-> "starting", plan |-> plan, cbOutcome |-> Unsettled,
   outcome |-> Unsettled]

InitRun ==
  /\ InitSession
  /\ eventHandlers = NoHandlers
  /\ transport = NoTransport
  /\ shared = NoShared
  /\ scan = NoScan
  /\ run \in {StartRun(plan) : plan \in CallbackPlans}

runVars == <<hostVars, h2w, w2h, workerVars, cbVars, obsVars, transport,
             shared, scan>>

\* `await initWorker(cls, ...args)` settles: the callback starts, or
\* runInWorker rejects with the error of initWorker
runInitWorker ==
  /\ run.pc = "starting"
  /\ readyPromise # "pending"
  /\ run' = IF readyPromise = "resolved"
            THEN [run EXCEPT !.pc = "callback"]
            ELSE [run EXCEPT !.pc = "settled",
                             !.outcome = Rejected(readyError)]
  /\ UNCHANGED runVars

FailedCalls == {i \in DOMAIN calls : calls[i].outcome.kind = "err"}

\* what `await cb(workerInstance)` gives: the rejection of a call the
\* callback awaited, its own throw, or the value of its last call
CallbackOutcome ==
  IF FailedCalls # {}
  THEN calls[CHOOSE i \in FailedCalls : \A j \in FailedCalls : i <= j].outcome
  ELSE IF run.plan = "throws" THEN Rejected(RunCallbackError)
  ELSE IF calls = <<>> THEN Resolved(0)
  ELSE calls[Len(calls)].outcome

\* try { return await cb(..) } finally { .. }: control enters the finally
\* block with the callback's result or error
\* variant: the block is entered only when the callback returned
runAfterCallback_onSuccessOnly(r, outcome) ==
  IF outcome.kind = "err"
  THEN [r EXCEPT !.pc = "settled", !.cbOutcome = outcome,
                 !.outcome = outcome]
  ELSE [r EXCEPT !.pc = "finally", !.cbOutcome = outcome]
runAfterCallback(r, outcome) ==
  [r EXCEPT !.pc = "finally", !.cbOutcome = outcome]

\* the callback issues its next call
callbackCalls(step) ==
  /\ run.pc = "callback"
  /\ AllSettled /\ FailedCalls = {}
  /\ callWorkerMethod("increment", step)

\* the callback finalizes the instance itself
callbackFinalizes ==
  /\ run.pc = "callback"
  /\ finalizeCalls + 1 < MaxFinalize
  /\ finalize

\* the callback returns, throws or rejects
callbackSettles ==
  /\ run.pc = "callback"
  /\ AllSettled
  /\ run' = runAfterCallback(run, CallbackOutcome)
  /\ UNCHANGED runVars

\* finally { await workerInstance.finalize() }: the call
runFinalizes ==
  /\ run.pc = "finally"
  /\ run' = [run EXCEPT !.pc = IF finalized THEN "awaited"
                                ELSE "terminating"]
  /\ finalizeCalled

\* variant: finalize() resolves when the host takes the context's 'finalized'
\* acknowledgement from the port
runSettles_onAcknowledgement ==
  /\ run.pc \in {"awaited", "terminating"}
  /\ w2h # <<>> /\ Head(w2h) = FinalizedMsg
  /\ w2h' = Tail(w2h)
  /\ run' = [run EXCEPT !.pc = "settled", !.outcome = run.cbOutcome]
  /\ UNCHANGED <<hostVars, h2w, workerVars, cbVars, obsVars, transport,
                 shared, scan>>

\* finalize() has resolved (worker.terminate() resolves once the thread has
\* exited): runInWorker settles with what the callback gave
runSettles ==
  /\ \/ run.pc = "awaited"
     \/ run.pc = "terminating" /\ wState = "exited"
  /\ run' = [run EXCEPT !.pc = "settled", !.outcome = run.cbOutcome]
  /\ UNCHANGED runVars

CallbackCalls == \E step \in CallbackSteps : callbackCalls(step)

NextRun ==
  \/ runInitWorker
  \/ CallbackCalls
  \/ callbackFinalizes
  \/ callbackSettles
  \/ runFinalizes
  \/ runSettles
  \/ ArgsEncoded
  \/ ReturnDecoded
  \/ onReady
  \/ onInitError
  \/ onResult
  \/ onFinalized
  \/ onExit
  \/ setupWorkerRuntime
  \/ InitFails
  \/ onInvoke
  \/ onFinalize
  \/ terminate

SpecRun == InitRun /\ [][NextRun]_vars

\* the event loops of both sides run what is ready: continuations, delivered
\* messages, raised events, a requested termination; the callback is not
\* obliged to call or to finalize
FairnessRun ==
  /\ WF_vars(runInitWorker)
  /\ WF_vars(callbackSettles)
  /\ WF_vars(runFinalizes)
  /\ WF_vars(runSettles)
  /\ WF_vars(ArgsEncoded)
  /\ WF_vars(ReturnDecoded)
  /\ WF_vars(onReady)
  /\ WF_vars(onInitError)
  /\ WF_vars(onResult)
  /\ WF_vars(onFinalized)
  /\ WF_vars(onExit)
  /\ WF_vars(StartsUp)
  /\ WF_vars(onInvoke)
  /\ WF_vars(onFinalize)
  /\ WF_vars(terminate)

SpecRunFair == InitRun /\ [][NextRun]_vars /\ FairnessRun

TypeOK ==
  /\ status \in {"Initializing", "Ready", "InitError", "WorkerError",
                 "Exited", "Finalized"}
  /\ finalized \in BOOLEAN /\ ready \in BOOLEAN
  /\ nextCallId \in 1..(MaxCalls + 1)
  /\ DOMAIN pending \subseteq 1..MaxCalls
  /\ readyPromise \in {"pending", "resolved", "rejected"}
  /\ Len(calls) <= MaxCalls
  /\ wState \in {"starting", "running", "initFailed", "errorPending",
                 "exitPending", "exited"}

\* ================================================================== claims
IsRejectedWith(call, message) ==
  /\ call.pc = "settled"
  /\ call.outcome.kind = "err"
  /\ call.outcome.error.message = message

\* C1: finalize() on a Ready session rejects every forward call that is in
\* the pending table at that moment with 'Worker has been finalized', inside
\* the finalize step itself: no message is consumed and the context has not
\* moved.
C1_FinalizeRejectsPending ==
  [][(finalize /\ status = "Ready")
       => /\ status' = "Finalized"
          /\ \A i \in PendingCalls(pending) :
               IsRejectedWith(calls'[i], "Worker has been finalized")
          /\ pending' = EmptyMap
          /\ w2h' = w2h /\ wState' = wState]_vars

\* two calls that had been sent were rejected by finalize while the context
\* was still running and had answered nothing
C1_Witness ==
  /\ status = "Finalized" /\ wState = "running" /\ w2h = <<>>
  /\ \E i, j \in DOMAIN calls :
       /\ i # j
       /\ calls[i].sentIn = "Ready" /\ calls[j].sentIn = "Ready"
       /\ IsRejectedWith(calls[i], "Worker has been finalized")
       /\ IsRejectedWith(calls[j], "Worker has been finalized")

\* C2: a forward call issued after finalize() is rejected with 'Worker has
\* been finalized' and never gets an id, a pending entry or an invoke message.
C2_CallAfterFinalizeRejected ==
  \A i \in DOMAIN calls :
    calls[i].afterFinalize =>
      /\ IsRejectedWith(calls[i], "Worker has been finalized")
      /\ calls[i].id = 0
      /\ calls[i].sentIn = ""
      /\ i \notin PendingCalls(pending)
      /\ nextCallId = 1 + Cardinality({j \in DOMAIN calls : calls[j].id # 0})

C2_Witness ==
  /\ finalized
  /\ \E i \in DOMAIN calls :
       /\ calls[i].afterFinalize
       /\ IsRejectedWith(calls[i], "Worker has been finalized")
       /\ calls[i].id = 0

\* C3: an invoke is posted (and its pending entry created) only while the
\* status is Ready.
C3_InvokeOnlyWhileReady ==
  \A i \in DOMAIN calls : calls[i].sentIn \in {"", "Ready"}

\* C4: the status changes only along Initializing->Ready,
\* Initializing->InitError, Ready->WorkerError, Ready->Exited and
\* Ready->Finalized; Ready is not re-entered and the four other targets are
\* never left.
AllowedTransitions ==
  { <<"Initializing", "Ready">>, <<"Initializing", "InitError">>,
    <<"Ready", "WorkerError">>, <<"Ready", "Exited">>,
    <<"Ready", "Finalized">> }

C5_SettledByOwnId ==
  \A i \in DOMAIN calls :
    /\ calls[i].pc = "decoding" =>
         calls[i].wire = MethodResult(calls[i].method, calls[i].arg)
    /\ calls[i].outcome.kind = "ok" =>
         /\ calls[i].method \in {"quickTask", "longTask"}
         /\ calls[i].outcome.value = MethodResult(calls[i].method, calls[i].arg)
    /\ IsRejectedWith(calls[i], "Test error") => calls[i].method = "throwError"

\* the result of the call sent second arrived first and resolved it with its
\* own value while the call sent first is still pending and its different
\* result is the next message
C5_Witness ==
  \E i, j \in DOMAIN calls :
    /\ calls[i].pc = "sent" /\ calls[j].outcome.kind = "ok"
    /\ calls[i].id < calls[j].id
    /\ calls[j].outcome.value = MethodResult(calls[j].method, calls[j].arg)
    /\ w2h # <<>> /\ Head(w2h).type = "result" /\ Head(w2h).id = calls[i].id
    /\ Head(w2h).ok /\ Head(w2h).result # calls[j].outcome.value

\* C6: ids are allocated in strictly increasing order, so the ids of all
\* calls that got one are pairwise distinct, each is below nextCallId, and
\* every pending entry is filed under the id of its own call.
AllocatedCalls == {i \in DOMAIN calls : calls[i].id # 0}

C6_FreshIds ==
  /\ \A i \in AllocatedCalls : calls[i].id >= 1 /\ calls[i].id < nextCallId
  /\ \A i, j \in AllocatedCalls : i # j => calls[i].id # calls[j].id
  /\ \A id \in DOMAIN pending : calls[pending[id].call].id = id
  /\ \A i \in DOMAIN calls : calls[i].pc = "sent" <=> i \in PendingCalls(pending)

C6_Witness ==
  /\ Cardinality(DOMAIN pending) = 2
  /\ nextCallId = 3

\* C7: when the context exits and finalize() was not called, the status
\* becomes Exited and every call pending at that moment is rejected with the
\* 'Worker exited' error that carries the exit code.
C7_ExitRejectsPending ==
  [][(onExit /\ ~finalized)
       => /\ status' = "Exited"
          /\ pending' = EmptyMap
          /\ \A i \in PendingCalls(pending) :
               /\ IsRejectedWith(calls'[i], "Worker exited (code)")
               /\ calls'[i].outcome.error.code = wExitCode]_vars

C7_Witness ==
  /\ status = "Exited" /\ wState = "exited" /\ ~finalized
  /\ \E i \in DOMAIN calls :
       /\ IsRejectedWith(calls[i], "Worker exited (code)")
       /\ calls[i].outcome.error.code = ExitCodeOfExitMethod

\* C8: when the context raises an uncaught error and finalize() was not
\* called, the status becomes WorkerError and every call pending at that
\* moment is rejected with an error built from the raised value: the name and
\* stack of a raised error object and its message (the text 'Worker error' in
\* place of an empty message), or a plain 'Worker error' for a raised value
\* that is no error object.
CarriesDetails(error, raised) ==
  IF raised.obj
    THEN /\ error.name = raised.name
         /\ error.stack = raised.stack
         /\ error.message =
              IF raised.message # "" THEN raised.message ELSE "Worker error"
    ELSE error.message = "Worker error"

C8_ErrorRejectsPending ==
  [][(onError /\ ~finalized)
       => /\ status' = "WorkerError"
          /\ pending' = EmptyMap
          /\ \A i \in PendingCalls(pending) :
               /\ calls'[i].pc = "settled"
               /\ calls'[i].outcome.kind = "err"
               /\ CarriesDetails(calls'[i].outcome.error, wRaised)]_vars

C8_Witness ==
  /\ status = "WorkerError" /\ ~finalized
  /\ \E i \in DOMAIN calls :
       /\ calls[i].sentIn = "Ready"
       /\ IsRejectedWith(calls[i], "boom")
       /\ calls[i].outcome.error.name = "TypeError"
       /\ calls[i].outcome.error.stack = "worker-stack"

\* C9: a failure of construction in the context is reported as init-error
\* holding the thrown value's message, name and stack; on that message the
\* status becomes InitError and initWorker rejects with the reported error
\* (message, name, stack) instead of returning the instance.
C9_InitErrorRejectsInit ==
  [][/\ \A e \in RaisedValues : tryStartWorkerForClass(e) =>
          LET m == w2h'[Len(w2h')] IN
            /\ m.type = "init-error"
            /\ m.error.message = e.message
            /\ e.obj => m.error.name = e.name /\ m.error.stack = e.stack
     /\ onInitError =>
          LET reported == Head(w2h).error IN
            /\ status' = "InitError"
            /\ readyPromise' = "rejected"
            /\ ~InstanceReturned'
            /\ readyError'.message =
                 IF reported.message # "" THEN reported.message
                 ELSE "Failed to initialize worker"
            /\ reported.name # "" => readyError'.name = reported.name
            /\ reported.stack # "" => readyError'.stack = reported.stack]_vars

C9_Witness ==
  /\ status = "InitError" /\ readyPromise = "rejected"
  /\ readyError.message = "boom" /\ readyError.name = "TypeError"
  /\ calls = <<>>

\* C10 as stated: the handling of two invoke messages never overlaps, i.e.
\* at most one invoke is in progress in the context at any time.
C10_NoOverlap == Cardinality(wActive) <= 1

\* C10 amended: the context starts handling invoke messages one at a time in
\* the order the host sent them, and an invoke whose method body is suspended
\* stays in progress while later messages are handled.
StrictlyIncreasing(seq) ==
  \A a, b \in DOMAIN seq : a < b => seq[a] < seq[b]

C10_StartedInSendOrder ==
  /\ StrictlyIncreasing(wStarted)
  /\ \A m \in wActive : \E k \in DOMAIN wStarted : wStarted[k] = m.id

C10_Witness ==
  /\ Cardinality(wActive) = 2
  /\ Len(wStarted) = 2
  /\ wState = "running"

\* ----------------------------------------------------------------- C11
Started(id) == \E k \in DOMAIN wStarted : wStarted[k] = id

\* a @WorkerFinalize method has completed in the context and the host has
\* not been told to finalize
FinalizeMethodCompleted ==
  /\ ~finalized
  /\ \E j \in DOMAIN calls :
       calls[j].method \in FinalizeMethods /\ Started(calls[j].id)

\* C11: when a @WorkerFinalize method has completed in the context while
\* other forward calls are pending, the exit that follows leaves the
\* triggering call to resolve with its return value and rejects every other
\* pending forward call with 'Worker has been finalized'.
C11_FinalizeMethodRejectsPending ==
  [][(onExit /\ FinalizeMethodCompleted)
       => /\ \A i \in PendingCalls(pending) :
               IsRejectedWith(calls'[i], "Worker has been finalized")
          /\ \A j \in DOMAIN calls :
               (calls[j].method \in FinalizeMethods /\ Started(calls[j].id))
                 => \/ calls'[j].pc = "decoding"
                    \/ calls'[j].outcome = Resolved(calls[j].arg * 10)]_vars

\* ----------------------------------------------------------------- C12
\* C12: an exception thrown by a remote method body becomes a failed result
\* and nothing else (the context keeps running, the host is untouched), and
\* the failed result rejects the call recorded under its id with the thrown
\* error and touches no other call, no other pending entry and not the
\* session state.
C12_ThrowRejectsOnlyThatCall ==
  [][/\ (onInvoke /\ NextMessage(h2w).method = "throwError")
         => /\ wState' = "running"
            /\ wActive' = wActive
            /\ w2h' = Append(w2h, ResultFail(NextMessage(h2w).id,
                         Err(TRUE, "Test error", "Error", "worker-stack")))
            /\ status' = status /\ calls' = calls /\ pending' = pending
     /\ (onResult /\ ~Head(w2h).ok /\ Head(w2h).id \in DOMAIN pending)
         => LET i == pending[Head(w2h).id].call IN
            /\ status' = status
            /\ wState' = wState
            /\ pending' = MapDelete(pending, Head(w2h).id)
            /\ calls'[i].pc = "settled"
            /\ calls'[i].outcome.kind = "err"
            /\ calls'[i].outcome.error.message = Head(w2h).error.message
            /\ \A j \in DOMAIN calls : j # i => calls'[j] = calls[j]]_vars

\* a call was rejected with the error its method body threw, the session is
\* still Ready, and a call sent after it was executed and has resolved
C12_Witness ==
  /\ status = "Ready"
  /\ \E i, j \in DOMAIN calls :
       /\ i < j
       /\ calls[i].method = "throwError"
       /\ IsRejectedWith(calls[i], "Test error")
       /\ calls[i].id < calls[j].id
       /\ calls[j].method = "quickTask"
       /\ calls[j].outcome = Resolved(QuickResult)

\* ----------------------------------------------------------------- C13
\* C13: an invoke naming a method that is not registered as remotely
\* callable is answered with a failed result saying so, no method body acts
\* (nothing is suspended, nothing returned, the context keeps running and
\* keeps its queue), and the failed result rejects that call alone.
C13_NotRemoteFailsOnlyThatCall ==
  [][/\ (onInvoke /\ NextMessage(h2w).method = "plainMethod")
         => /\ wState' = "running"
            /\ wActive' = wActive
            /\ h2w' = Tail(h2w)
            /\ w2h' = Append(w2h, ResultFail(NextMessage(h2w).id,
                         Err(TRUE, "Method is not decorated with @WorkerMethod()",
                             "", "")))
            /\ status' = status /\ calls' = calls /\ pending' = pending
     /\ (onResult /\ Head(w2h).id \in DOMAIN pending
           /\ pending[Head(w2h).id].method = "plainMethod")
         => LET i == pending[Head(w2h).id].call IN
            /\ status' = status
            /\ wState' = wState
            /\ pending' = MapDelete(pending, Head(w2h).id)
            /\ IsRejectedWith(calls'[i],
                 "Method is not decorated with @WorkerMethod()")
            /\ \A j \in DOMAIN calls : j # i => calls'[j] = calls[j]]_vars

\* the call naming the unregistered method was rejected, the session is
\* still Ready, and an invoke sent after it was served and has resolved
C13_Witness ==
  /\ status = "Ready"
  /\ wState = "running"
  /\ \E i, j \in DOMAIN calls :
       /\ calls[i].method = "plainMethod"
       /\ IsRejectedWith(calls[i],
            "Method is not decorated with @WorkerMethod()")
       /\ calls[i].id < calls[j].id
       /\ calls[j].method = "quickTask"
       /\ calls[j].outcome = Resolved(QuickResult)

\* ----------------------------------------------------------------- C14
Last(queue) == queue[Len(queue)]

\* C14 as stated: what the context-side caller of a callback receives is
\* exactly the host-side outcome, the return value or the error thrown
\* (its message and its name).
C14_ExactOutcome ==
  [][(onCallbackResult /\ NextMessage(h2w).id \in DOMAIN pendingCallbacks)
       => LET message == NextMessage(h2w) IN
          /\ Last(w2h').ok = message.ok
          /\ message.ok => Last(w2h').result = message.result
          /\ ~message.ok
               => /\ Last(w2h').error.message = message.error.message
                  /\ Last(w2h').error.name = message.error.name]_vars

\* C14 amended: a callback-designated method invoked inside the context does
\* not run there (the context's instance is untouched and a callback-invoke
\* with a fresh id is sent); the host applies the method to its own instance;
\* and the context-side caller receives the host's return value or, when the
\* host-side method failed, an error with the message of the host-side error.
C14_CallbackRunsOnHost ==
  [][/\ (onInvoke /\ NextMessage(h2w).method \in CallbackMethods)
         => LET message == NextMessage(h2w) IN
            /\ workerCount' = workerCount
            /\ hostCount' = hostCount
            /\ wState' = "running"
            /\ nextCallbackId \notin DOMAIN pendingCallbacks
            /\ w2h' = Append(w2h, CallbackInvokeMsg(nextCallbackId,
                         CallbackOf(message.method), message.arg))
     /\ \A t \in cbTasks : (callbackChain(t) /\ t.method = "onMainAdd")
         => /\ hostCount' = hostCount + t.arg
            /\ workerCount' = workerCount
            /\ h2w' = IF Stopped THEN h2w
                      ELSE Append(h2w, CallbackResultOk(t.id, hostCount'))
     /\ (onCallbackResult /\ NextMessage(h2w).id \in DOMAIN pendingCallbacks)
         => LET message == NextMessage(h2w) IN
            /\ Last(w2h').type = "result"
            /\ Last(w2h').id = pendingCallbacks[message.id].id
            /\ Last(w2h').ok = message.ok
            /\ message.ok => Last(w2h').result = message.result
            /\ ~message.ok
                 => Last(w2h').error.message = message.error.message]_vars

\* one forward call got the value the host's instance computed, another the
\* failure of the host-side handler, and the context's instance never changed
C14_Witness ==
  /\ workerCount = 0
  /\ hostCount = 2
  /\ \E i, j \in DOMAIN calls :
       /\ calls[i].method = "callMainAdd"
       /\ calls[i].outcome = Resolved(2)
       /\ calls[j].method = "callMainFail"
       /\ IsRejectedWith(calls[j], "callback failed")

\* ----------------------------------------------------------------- C15
\* C15: when the host's local handler throws while a callback-invoke is
\* served, the host posts callback-result ok=false with the thrown error
\* under the id of that callback-invoke, and nothing of the session changes:
\* not the status, not the flags, not the pending table, not any call.
C15_HandlerErrorAnswered ==
  [][\A t \in cbTasks : (callbackChain(t) /\ t.method = "onMainFail")
       => /\ h2w' = IF Stopped THEN h2w
                    ELSE Append(h2w, CallbackResultFail(t.id,
                           Err(TRUE, "callback failed", "TypeError",
                               "host-stack")))
          /\ cbTasks' = cbTasks \ {t}
          /\ status' = status /\ finalized' = finalized /\ ready' = ready
          /\ pending' = pending /\ calls' = calls
          /\ hostCount' = hostCount]_vars

\* the failed callback-result is on its way to a running context and the
\* session is Ready with the forward call still pending
C15_Witness ==
  /\ status = "Ready"
  /\ wState = "running"
  /\ \E k \in DOMAIN h2w :
       /\ h2w[k].type = "callback-result"
       /\ ~h2w[k].ok
       /\ h2w[k].id \in DOMAIN pendingCallbacks
       /\ pendingCallbacks[h2w[k].id].id \in DOMAIN pending

\* ----------------------------------------------------------------- C16
AllObservers(event) ==
  [k \in 1..Len(eventHandlers[event]) |-> <<event, eventHandlers[event][k].key>>]

\* C16: whichever observers fail, every observer of the event is invoked, in
\* registration order, and the event has the effect on the session it has
\* without observers: 'error' sets WorkerError and rejects every pending
\* call with the raised error, 'exit' of a session that was not finalized
\* sets Exited and rejects every pending call with the exit error.
C16_ObserverFailureContained ==
  [][/\ onError
         => /\ notified' = notified \o AllObservers("error")
            /\ status' = "WorkerError"
            /\ pending' = EmptyMap
            /\ \A i \in PendingCalls(pending) :
                 /\ calls'[i].pc = "settled"
                 /\ calls'[i].outcome = Rejected(toError(wRaised, "Worker error"))
            /\ ~ready => readyPromise' = "rejected"
     /\ onExit
         => /\ notified' = notified \o AllObservers("exit")
            /\ ~finalized
                 => /\ status' = "Exited"
                    /\ pending' = EmptyMap
                    /\ \A i \in PendingCalls(pending) :
                         IsRejectedWith(calls'[i], "Worker exited (code)")
                    /\ ~ready => readyPromise' = "rejected"]_vars

\* the first 'exit' observer failed, the second was invoked all the same,
\* and the exit rejected a pending call and set Exited
C16_Witness ==
  /\ eventHandlers["exit"] = <<Handler("h1", TRUE), Handler("h2", FALSE)>>
  /\ \E k \in DOMAIN notified :
       /\ k > 1
       /\ notified[k - 1] = <<"exit", "h1">>
       /\ notified[k] = <<"exit", "h2">>
  /\ status = "Exited"
  /\ \E i \in DOMAIN calls : IsRejectedWith(calls[i], "Worker exited (code)")

\* C17: encoding a value graph that contains a cycle (A references B and B
\* references A) always fails with a circular-reference error, and the
\* forward call is rejected without any invoke message being sent.
C17_CycleRejectedWithoutInvoke ==
  (transport.shape = "cycle" /\ transport.pc # "calling")
    => /\ transport.pc = "rejected"
       /\ transport.outcome.kind = "err"
       /\ transport.outcome.error.message = "Circular reference detected"
       /\ transport.sent = <<>>

\* C18: a value under a @TransportNoop descriptor never crosses the
\* boundary: whatever the sender supplies, the encoded message carries
\* undefined in its place and the receiver observes undefined, so that what
\* is encoded, posted and observed is the same for every suppressed input.
Secrets == {8, 9}
WithSecret(value, secret) ==
  IF value.t = "object"
  THEN [value EXCEPT !.fields.noopValue = Prim(secret)]
  ELSE Prim(secret)
SuppressedPart(term) ==
  CASE term.t = "CustomClass" -> term.data.noopValue
    [] term.t = "object" -> term.fields.noopValue
    [] OTHER -> term
EncodedWith(secret) ==
  encodeValue(WithSecret(transport.value, secret), transport.info,
              transport.memory, StackDepth)
LastWrite == transport.writes[Len(transport.writes)]
SupportedShapes == {input.shape : input \in SupportedInputs}
C20_RoundTrip ==
  (/\ transport.pc \in {"decoded", "rejected"}
   /\ transport.shape \in SupportedShapes
   /\ transport.writes = <<>>)
    => /\ transport.pc = "decoded"
       /\ Observe(transport.decoded, transport.memory)
            = Observe(transport.value, transport.memory)

\* C21: for a struct-typed unit the host's instance and the context's instance
\* are bound to one shared region, allocated before either is constructed
\* over it, so a write by either side is what the other side reads next.
LastStructWrite == shared.writes[Len(shared.writes)]
C21_StructRegionShared ==
  /\ shared.payload # NoStore
  /\ shared.context # NoStore
       => /\ ReadValue(shared, shared.host) = ReadValue(shared, shared.context)
          /\ shared.writes # <<>>
               => ReadValue(shared, shared.host) = LastStructWrite.value
          /\ shared.writes = <<>>
               => ReadValue(shared, shared.host) = InitialValue
C21_Witness ==
  /\ shared.context # NoStore
  /\ Len(shared.writes) >= 2
  /\ \E i \in DOMAIN shared.writes : shared.writes[i].by = "host"
  /\ LastStructWrite = [by |-> "context", value |-> 127]
  /\ ReadValue(shared, shared.host) = 127
  /\ \E i \in DOMAIN calls :
        calls[i].method = "setValue" /\ calls[i].outcome = Resolved(127)

\* C22: increments issued one after the other on a fresh counter return the
\* running total: increment(1), increment(2), increment(3) return 1, 3, 6.
RECURSIVE SumOfSteps(_)
SumOfSteps(i) == IF i = 0 THEN 0 ELSE SumOfSteps(i - 1) + calls[i].arg
C22_RunningTotal ==
  \A i \in DOMAIN calls :
    calls[i].outcome.kind = "ok" => calls[i].outcome.value = SumOfSteps(i)
C22_Witness ==
  /\ Len(calls) = 3
  /\ \A i \in 1..3 : calls[i].method = "increment" /\ calls[i].arg = i
  /\ calls[1].outcome = Resolved(1)
  /\ calls[2].outcome = Resolved(3)
  /\ calls[3].outcome = Resolved(6)
  /\ hostCount = 0

\* C23: hasSharedMemorySegments fails with a circular-type error when the
\* type graph has a cycle (CircularA has a field of CircularB, CircularB one
\* of CircularA); it never answers false for such a type.
CircularTypes == {"CircularA", "CircularB"}
C23_TypeCycleIsAnError ==
  (/\ scan.pc = "done"
   /\ scan.op = "hasSharedMemorySegments"
   /\ scan.cls \in CircularTypes)
    => scan.result.t = "threw"

\* C24: @Shared on a constructor parameter fails when it is applied, before
\* any context is started, if the parameter's type has no shared segments (a
\* plain class without buffer or struct fields, or a built-in type).
TypesWithoutSegments == {"NoSharedMemory", "String", "Number", "Date"}
C24_UnshareableParameterRejected ==
  (/\ scan.pc = "done"
   /\ scan.op = "Shared"
   /\ scan.onConstructor
   /\ scan.cls \in TypesWithoutSegments)
    => scan.result.t = "threw"

\* C25: calculateSharedMemorySize is exactly 0 for a value that is already
\* fully shared and exactly N for a value whose only segment is one owned
\* buffer of length N.
FullyShared ==
  {"shared buffer", "shared region", "shared struct",
   "class with shared buffer"}
OneOwnedBuffer ==
  {"owned buffer", "owned struct", "class with owned buffer",
   "class with nested struct"}
C25_ExtraSizeExact ==
  (scan.pc = "done" /\ scan.op = "calculateSharedMemorySize")
    => /\ scan.result.t = "returned"
       /\ scan.input.shape \in FullyShared => scan.result.v = 0
       /\ scan.input.shape \in OneOwnedBuffer
            => scan.result.v = scan.input.buffer.byteLength
C25_Witness ==
  /\ scan.pc = "done"
  /\ scan.op = "calculateSharedMemorySize"
  /\ scan.input.value = Ref("sc1", "SimpleClass")
  /\ scan.result = Returned(3)

\* C26: calculateSharedMemorySize fails with a circular-reference error when
\* the value graph has a cycle (an object that names itself); it never
\* returns a size for such a value.
C26_ValueCycleIsAnError ==
  (/\ scan.pc = "done"
   /\ scan.op = "calculateSharedMemorySize"
   /\ scan.input.shape = "object naming itself")
    => scan.result.t = "threw"

\* C27: toShared returns a new instance for an owned buffer or a struct
\* instance and leaves the original untouched; for a plain class instance it
\* returns the same instance and replaces only its qualifying fields.
StructShapes == {"owned struct", "shared struct", "struct with fields"}
ClassShapes ==
  {"class with owned buffer", "class with shared buffer",
   "class with nested struct", "class without segments",
   "class with undecorated buffer"}
QualifyingFields(cls) ==
  CASE cls \in {"BufferContainer", "SimpleClass"} -> {"buffer"}
    [] cls = "NestedSharedContainer" -> {"data"}
    [] OTHER -> {}
WrittenThrough(which) ==
  \E i \in DOMAIN scan.writes : scan.writes[i].through = which
C28_SelfReferenceRejected ==
  (/\ scan.pc = "done"
   /\ scan.op = "toShared"
   /\ scan.input.shape = "object naming itself")
    => scan.result.t = "threw"

\* C29: after initWorker with a struct argument for a @Shared constructor
\* parameter, host and context share the memory of it: a write the context
\* makes is read through the field of the host's instance, and a write made
\* through the object the caller passed in is what the context reads on its
\* next call.
C29_SharedWithArgument ==
  (shared.context # NoStore /\ shared.writes # <<>>)
    => /\ LastStructWrite.by = "context"
            => ReadValue(shared, shared.host) = LastStructWrite.value
       /\ LastStructWrite.by = "caller"
            => ReadValue(shared, shared.context) = LastStructWrite.value


\* C30: runInWorker finalizes the session it created on every path, after
\* the callback returns and also when it throws or rejects, and only after
\* that does it settle, with the callback's result or error.
C30_FinalizedBeforeSettled ==
  /\ run.pc \in {"starting", "callback", "finally", "awaited", "terminating"}
       => run.outcome = Unsettled
  /\ (run.pc = "settled" /\ run.cbOutcome # Unsettled)
       => /\ finalized
          /\ finalizeCalls >= 1
          /\ run.outcome = run.cbOutcome
C30_Witness ==
  /\ run.pc = "settled"
  /\ run.cbOutcome = Rejected(RunCallbackError)
  /\ run.outcome = Rejected(RunCallbackError)
  /\ finalized
  /\ wState = "exited"
  /\ \E i \in DOMAIN calls : calls[i].outcome = Resolved(2)

\* C31: finalize is idempotent: a finalize() call on a session that is already
\* finalized posts no message, rejects no call and changes neither the pending
\* table nor the status; a status that is Finalized stays Finalized.
C31_FinalizeIdempotent ==
  [][(finalized /\ finalizeCalls' = finalizeCalls + 1)
       => /\ UNCHANGED <<h2w, w2h, calls, pending, posted, status, finalized,
                         terminating, nextCallId>>
          /\ status = "Finalized" => status' = "Finalized"]_vars

\* finalize() was called twice; the first call rejected a call that was in
\* flight and the status is Finalized
C31_Witness ==
  /\ finalizeCalls = 2
  /\ status = "Finalized"
  /\ \E i \in DOMAIN calls :
       /\ calls[i].pc = "settled"
       /\ calls[i].outcome = Rejected(FinalizedError)
       /\ calls[i].id \in posted

\* C32: initWorker resolves with the instance only in the step in which the
\* host receives 'ready' from the context, and the status is Ready when it
\* does; an instance that was returned belongs to a session that received
\* 'ready'.
C32_ResolvedMeansReady ==
  /\ [](InstanceReturned => ready)
  /\ [][(readyPromise = "pending" /\ readyPromise' = "resolved")
         => /\ w2h # <<>> /\ Head(w2h) = ReadyMsg
            /\ ready'
            /\ status' = "Ready"]_vars

\* the instance has just been returned: nothing was called on it yet
C32_Witness ==
  /\ InstanceReturned
  /\ ready
  /\ status = "Ready"
  /\ wState = "running"
  /\ calls = <<>>
  /\ finalizeCalls = 0

\* C34: once finalize() has run the pending table is empty and stays empty,
\* and no invoke is posted: a call that was issued before finalize() and was
\* still encoding its arguments is not recorded and not sent afterwards.
C34_NothingRecordedAfterFinalize ==
  /\ [](finalized => pending = EmptyMap)
  /\ [][finalized => (pending' = pending /\ posted' = posted)]_vars

\* C35: the future of a forward call is settled at most once: a settled call
\* keeps its outcome in every later step, a call whose entry was removed by
\* its result can only be resolved with the value of that result, and a
\* result message whose id has no entry in the pending table changes neither
\* a call nor the table.
C35_SettledOnce ==
  [][/\ \A i \in DOMAIN calls :
          /\ calls[i].pc = "settled" => calls'[i] = calls[i]
          /\ calls[i].pc = "decoding"
               => \/ calls'[i] = calls[i]
                  \/ calls'[i] = [calls[i] EXCEPT !.pc = "settled",
                                     !.outcome = Resolved(calls[i].wire)]
     /\ (/\ w2h # <<>> /\ Head(w2h).type = "result"
         /\ w2h' = Tail(w2h)
         /\ ~HasCallback(pending, Head(w2h).id))
          => calls' = calls /\ pending' = pending]_vars

\* the result of a call that finalize() had rejected arrived afterwards and was
\* taken from the port: the call is still rejected with the finalize error
C35_Witness ==
  \E i \in DOMAIN calls :
    /\ calls[i].method = "quickTask"
    /\ calls[i].pc = "settled"
    /\ calls[i].outcome = Rejected(FinalizedError)
    /\ \E k \in DOMAIN wStarted : wStarted[k] = calls[i].id
    /\ \A k \in DOMAIN w2h : w2h[k].id # calls[i].id

\* C33: every forward call is settled in the end: once the status is
\* Finalized, Exited, WorkerError or InitError, each forward call, issued
\* before or after that, is eventually settled.
SessionEnded == status \in {"Finalized", "Exited", "WorkerError", "InitError"}
C33_EveryCallSettles ==
  \A i \in 1..MaxCalls :
    [](SessionEnded /\ i \in DOMAIN calls
         => <>(i \in DOMAIN calls /\ calls[i].pc = "settled"))

\* C37: initWorker does not stay pending forever: when the context has raised
\* an error or has exited and has not announced ready, initWorker eventually
\* rejects.
ReadyAnnounced == ready \/ \E k \in DOMAIN w2h : w2h[k] = ReadyMsg
C37_InitSettles ==
  [](Stopped /\ ~ReadyAnnounced => <>(readyPromise = "rejected"))

\* the context exited without a message: 'exit' alone rejected initWorker
C37_Witness ==
  /\ wState = "exited"
  /\ ~ready
  /\ readyPromise = "rejected"
  /\ readyError = ExitedBeforeReadyError(ExitCodeOfProcessExit)
  /\ eventHandlers["exit"] # <<>>

\* C38: finalize() completes without the context's 'finalized'
\* acknowledgement: the step in which the host takes an acknowledgement from
\* the port changes nothing else, and a finalize() that awaits the
\* termination completes whether or not an acknowledgement was posted.
C38_AcknowledgementNotNeeded ==
  /\ [][(w2h # <<>> /\ Head(w2h) = FinalizedMsg /\ w2h' = Tail(w2h))
         => UNCHANGED <<hostVars, h2w, workerVars, cbVars, obsVars, run>>]_vars
  /\ (run.pc = "terminating" ~> run.pc = "settled")

\* finalize() awaits the termination of a context that was stopped before it
\* handled 'finalize': no acknowledgement was posted and none will be
C38_Witness ==
  /\ run.pc = "terminating"
  /\ wState = "exitPending"
  /\ wExitCode = ExitCodeOfTerminate
  /\ \A k \in DOMAIN w2h : w2h[k] # FinalizedMsg

\* C36: a forward call whose method body makes a reverse call does not
\* deadlock: in a session that is not ended, a call of callMainAdd that was
\* sent is eventually resolved, which requires the context to handle the
\* callback-result while the invoke is still in progress.
C36_ReverseCallCompletes ==
  \A i \in 1..MaxCalls :
    [](/\ i \in DOMAIN calls
       /\ calls[i].method = "callMainAdd"
       /\ calls[i].pc = "sent"
       => <>(/\ i \in DOMAIN calls
             /\ calls[i].pc = "settled"
             /\ calls[i].outcome.kind = "ok"))

\* the callback ran on the host and the forward call resolved with its
\* result, in a session that was not finalized
C36_Witness ==
  /\ ~finalized
  /\ hostCount = 2
  /\ \E i \in DOMAIN calls :
       /\ calls[i].method = "callMainAdd"
       /\ calls[i].pc = "settled"
       /\ calls[i].outcome = Resolved(2)

\* C39: toShared terminates on objects that name each other in a cycle: it
\* returns the instance it was given, every reference between the objects of
\* the cycle is what it was, and each object is converted at most once, so
\* that one struct instance held by the cycle yields one new instance and one
\* new SharedArrayBuffer and a cycle that holds none yields nothing new.
CyclicShapes ==
  {"object naming itself", "objects naming each other",
   "decorated objects naming each other"}
CycleOf(value) ==
  CASE value.id = "k1" -> {"k1"}
    [] value.id = "cc1" -> {"cc1", "cc2"}
    [] value.id = "ca1" -> {"ca1", "cb1"}
    [] OTHER -> {}
FieldsOf(ids) == UNION {{<<id, key>> : key \in DOMAIN ScanHeap[id]} : id \in ids}
====
